---- MODULE Spec2Model ----
(***************************************************************************)
(* The data synchronization and fallback layer of the timetable dashboard: *)
(* StorageManager (storage.js), its alternative APIStorageAdapter          *)
(* (storage_api.js), the Remote Gateway APIClient (apiClient.js) and the   *)
(* consumers that drive them.  JavaScript runs one task at a time, so the  *)
(* code between two awaits is one atomic step; every await of a timer or   *)
(* of a fetch is a suspension point at which other tasks may run.          *)
(***************************************************************************)
EXTENDS Integers, Sequences, FiniteSets, TLC

VARIABLES
    impl,            \* which script defines window.storage
    apiClient,       \* window.apiClient: is it defined, and its .initialized flag
    useLocalStorage, \* StorageManager.useLocalStorage (TRUE = LOCAL mode)
    initialized,     \* StorageManager.initialized
    apiAvailable,    \* StorageManager.apiAvailable
    localStorage,    \* the browser's localStorage: key -> <<>> (absent) or <<string>>
    cache,           \* APIStorageAdapter.cache
    server,          \* the collections held by the remote service
    nextId,          \* the identifier the remote service assigns next
    now,             \* Date.now()
    calls,           \* asynchronous calls in flight (suspended at an await)
    ops,             \* number of calls issued so far
    last,            \* the call that completed most recently, with its outcome
    probes,          \* health probes issued by the storage layer
    tm,              \* TimetableManager: timetable, settings, currentTimetableId, availableTimetables
    auth,            \* AuthManager: currentUser, isAuthenticated, initialized
    mgr,             \* the lists held by FacultyManager, RoomsManager, SubjectsManager, LeaveManager
    sentBP,          \* break and practical records sent to the gateway
    added,           \* per entity: identifiers assigned by successful remote adds
    lastGood,        \* per entity: <<list>> returned by the latest successful remote get
    probed           \* the answer to the health probe that settled last ("none" before)

vars == <<impl, apiClient, useLocalStorage, initialized, apiAvailable, localStorage,
          cache, server, nextId, now, calls, ops, last, probes, tm, auth, mgr, sentBP, added, lastGood, probed>>

---------------------------------------------------------------------------
(* Bounds of the model.                                                    *)
MaxOps == 2      \* calls issued by consumers in one run

(* Program constants.                                                      *)
maxAttempts == 50

---------------------------------------------------------------------------
(* Values.                                                                 *)
Data == {"a", "b"}
InputIds == {1, 2}   \* identifiers a consumer passes to remove and update
Elapsed == {0, 1}    \* clock ticks between two readings of Date.now()
Callers == {"page", "handler"}   \* the tasks that may each be suspended in a call
Remote == {"faculty", "rooms", "subjects", "leaveRequests"}
LocalOnly == {"breaks", "practicals"}
Seeded == {"faculty", "rooms", "subjects", "breaks", "leaveRequests", "users"}
\* The keys of localStorage: the prefixed ones and the unprefixed 'currentUser'.
Keys == Remote \cup LocalOnly \cup {"users", "timetable", "currentUser"}

Absent == <<>>
Some(v) == <<v>>

\* new Error(message)
Error(msg) == [message |-> msg]

\* JSON.stringify / JSON.parse of plain data: the stored item is a string, a
\* value distinct from the collection it encodes.
JSONstringify(v) == [json |-> v]
JSONparse(s) == s.json

Rec(id, d) == [id |-> id, d |-> d]
Ids(list) == {list[i].id : i \in 1..Len(list)}

getDefaultUsers ==
    << [id |-> 1, username |-> "admin", password |-> "admin123", role |-> "admin",
        name |-> "System Administrator", email |-> "admin@college.edu"],
       [id |-> 2, username |-> "faculty1", password |-> "faculty123", role |-> "faculty",
        name |-> "S. P. Shinde", email |-> "shinde@avoce.edu"],
       [id |-> 3, username |-> "student1", password |-> "student123", role |-> "student",
        name |-> "Sujay Patil", email |-> "sujay@college.edu"] >>

defaultData(key) == IF key = "users" THEN getDefaultUsers ELSE <<>>

\* localStorage.getItem / setItem
getItem(store, key) == store[key]
setItem(store, key, s) == [store EXCEPT ![key] = Some(s)]

\* StorageManager.initLocalStorage: seed the keys of defaultData that hold nothing.
initLocalStorage_overwriting(store) ==
    [k \in Keys |-> IF k \in Seeded THEN Some(JSONstringify(defaultData(k))) ELSE store[k]]

initLocalStorage(store) ==
    [k \in Keys |->
        IF k \in Seeded /\ getItem(store, k) = Absent
        THEN Some(JSONstringify(defaultData(k)))
        ELSE store[k]]

\* get<Entity>FromLocalStorage, getBreaks, getPracticals: data ? JSON.parse(data) : []
getFromLocalStorage(store, key) ==
    IF getItem(store, key) = Absent THEN <<>> ELSE JSONparse(getItem(store, key)[1])

\* APIClient.healthCheck: true only for status 'healthy'; any error gives false.
ProbeOutcomes == {"healthy", "other", "error"}
healthCheck(outcome) == outcome = "healthy"

---------------------------------------------------------------------------
(* The Remote Gateway.                                                     *)

\* What the service answers to one request: a well-formed success envelope, a
\* rejected fetch, a non-2xx answer whose body says "not found", or a
\* well-formed envelope with success = false and no error text.
Responses == {"ok", "reject", "notfound", "unsuccessful"}
Failures == Responses \ {"ok"}

\* What one fetch can bring back: whether the promise settled with a response
\* or was rejected, whether the body parsed as JSON, response.ok, and the
\* envelope's success flag, error text ("" when it has none) and whether it
\* has a data property.  What makeRequest never gets to read is left at
\* FALSE or "".
Wires ==
    {w \in [settled : BOOLEAN, parses : BOOLEAN, ok : BOOLEAN, success : BOOLEAN,
             error : {"", "not found"}, data : BOOLEAN] :
        /\ ~w.settled => (~w.parses /\ ~w.ok)
        /\ ~w.parses => w.error = ""
        /\ ~(w.parses /\ w.ok) => ~w.success
        /\ w.success => w.error = ""
        /\ ~w.success => ~w.data}

\* The whole envelope, which makeRequest hands back when it has no data property.
Envelope == <<[success |-> TRUE]>>

Raised(msg) == [ok |-> FALSE, val |-> <<>>, msg |-> msg]

\* APIClient.makeRequest on what the fetch brought back: the unwrapped payload
\* (or the envelope), or a raised Error with a message.
request_lenient(w, payload) ==
    IF ~w.settled THEN Raised("Failed to fetch")
    ELSE IF ~w.parses THEN Raised("Unexpected token")
    ELSE IF ~w.ok THEN Raised(IF w.error # "" THEN w.error ELSE "HTTP error! status")
    ELSE [ok |-> TRUE, val |-> IF w.data THEN payload ELSE Envelope, msg |-> ""]

request(w, payload) ==
    IF ~w.settled THEN Raised("Failed to fetch")
    ELSE IF ~w.parses THEN Raised("Unexpected token")
    ELSE IF ~w.ok THEN Raised(IF w.error # "" THEN w.error ELSE "HTTP error! status")
    ELSE IF ~w.success THEN Raised(IF w.error # "" THEN w.error ELSE "API request failed")
    ELSE [ok |-> TRUE, val |-> IF w.data THEN payload ELSE Envelope, msg |-> ""]

\* The fetch outcome each of the four answers stands for.
wire(resp) ==
    [settled |-> resp # "reject", parses |-> resp # "reject",
     ok |-> resp \in {"ok", "unsuccessful"}, success |-> resp = "ok",
     error |-> IF resp = "notfound" THEN "not found" ELSE "", data |-> resp = "ok"]

\* APIClient.makeRequest: the unwrapped payload, or a raised Error with a message.
makeRequest(resp, payload) == request(wire(resp), payload)

---------------------------------------------------------------------------
(* Calls.                                                                  *)

NoArg == Rec(0, "a")

Call(op, e, arg, pc) ==
    [op |-> op, e |-> e, arg |-> arg, pc |-> pc, a |-> 0, exp |-> {}, prev |-> Absent,
     empty |-> FALSE]

\* A call that completes: what its caller observes.
\* gw tells what the gateway did for it: "none" (not asked), "ok" or "fail";
\* out and val are the result: "returned" with a value or "raised" with a
\* message.  seq alternates, so that every completion changes `last`.  exp
\* and prev are what was known when the gateway request of a read went out:
\* the identifiers added remotely so far, and the list read last.
Done(c, gw, out, val) ==
    [op |-> c.op, e |-> c.e, gw |-> gw, out |-> out, val |-> val,
     seq |-> 1 - last.seq, exp |-> c.exp, prev |-> c.prev]

CanIssue == ops < MaxOps /\ Cardinality(calls) < Cardinality(Callers)

---------------------------------------------------------------------------
(* StorageManager: mode determination.                                     *)

\* StorageManager.waitForAPIClient, from a loop test with `a` attempts made:
\* where the call stands next.  "throw" is the Error raised when the client
\* never appeared; "probe" is the normal return, after which init() issues
\* the health probe.
waitForAPIClient_unguarded(a) ==
    IF ~apiClient.present /\ a < maxAttempts THEN "waitClient"
    ELSE IF apiClient.present /\ ~apiClient.initialized /\ a < maxAttempts * 2 THEN "waitReady"
    ELSE "probe"

\* The readiness loop counting its own attempts from zero, after a presence
\* loop that ran to its ceiling.
waitForAPIClient_unshared(a) ==
    IF ~apiClient.present
    THEN IF a < maxAttempts THEN "waitClient" ELSE "throw"
    ELSE IF ~apiClient.initialized /\ a < maxAttempts * 3 THEN "waitReady" ELSE "probe"

waitForAPIClient(a) ==
    IF ~apiClient.present
    THEN IF a < maxAttempts THEN "waitClient" ELSE "throw"
    ELSE IF ~apiClient.initialized /\ a < maxAttempts * 2 THEN "waitReady" ELSE "probe"

\* StorageManager.init, lines 19-29: the mode chosen from healthCheck's answer.
modeAfterProbe_remote(healthy) == FALSE

modeAfterProbe(healthy) == ~healthy

\* StorageManager.init, the catch branch and line 31, as the new field values.
storeAfterInit(local) == IF local THEN initLocalStorage(localStorage) ELSE localStorage

\* The body of a read accessor once the mode is known: LOCAL reads the store
\* and returns; REMOTE issues the gateway request and suspends.
Accessor_remote(c, local, store) ==
    /\ calls' = (calls \ {c}) \cup {[c EXCEPT !.pc = "gw"]}
    /\ last' = last

Accessor(c, local, store) ==
    IF local
    THEN /\ calls' = calls \ {c}
         /\ last' = Done(c, "none", "returned",
                         IF c.op = "getTimetable"
                         THEN (IF getItem(store, "timetable") = Absent THEN <<>>
                               ELSE <<JSONparse(getItem(store, "timetable")[1])>>)
                         ELSE getFromLocalStorage(store, c.e))
    ELSE /\ calls' = (calls \ {c}) \cup {[c EXCEPT !.pc = "gw",
                !.exp = IF c.e \in Remote THEN added[c.e] ELSE {},
                !.prev = IF c.e \in Remote THEN lastGood[c.e] ELSE Absent]}
         /\ last' = last

\* What follows init() in the call that ran it.
AfterInit_raising(c, local, store) ==
    /\ calls' = calls \ {c}
    /\ last' = Done(c, "none", "raised", <<Error("init failed")>>)

AfterInit(c, local, store) ==
    IF c.op = "init"
    THEN /\ calls' = calls \ {c}
         /\ last' = Done(c, "none", "returned", <<>>)
    ELSE Accessor(c, local, store)

\* init() entered by call c: runs waitForAPIClient up to its first suspension.
EnterInit(c) ==
    LET pc == waitForAPIClient(0) IN
    /\ calls' = calls \cup {[c EXCEPT !.pc = pc]}
    /\ probes' = IF pc = "probe" THEN probes + 1 ELSE probes

\* A consumer calls storage.init() when it finds storage.initialized false
\* (FacultyManager.loadFaculty).
ConsumerInit ==
    /\ impl = "StorageManager"
    /\ CanIssue
    /\ ~initialized
    /\ ops' = ops + 1
    /\ EnterInit(Call("init", "faculty", NoArg, "new"))
    /\ UNCHANGED <<impl, apiClient, useLocalStorage, initialized, apiAvailable, localStorage,
                   cache, server, nextId, now, last, tm, auth, mgr, sentBP, added, lastGood, probed>>

\* One polling timer of waitForAPIClient fires.
Poll(c) ==
    /\ c.pc \in {"waitClient", "waitReady"}
    /\ LET pc == waitForAPIClient(c.a + 1)
           d == [c EXCEPT !.a = c.a + 1, !.pc = pc] IN
       IF pc = "throw"
       THEN /\ useLocalStorage' = TRUE
            /\ localStorage' = storeAfterInit(TRUE)
            /\ initialized' = TRUE
            /\ AfterInit(c, TRUE, storeAfterInit(TRUE))
            /\ probes' = probes
       ELSE /\ calls' = (calls \ {c}) \cup {d}
            /\ probes' = IF pc = "probe" THEN probes + 1 ELSE probes
            /\ UNCHANGED <<useLocalStorage, localStorage, initialized, last>>
    /\ UNCHANGED <<impl, apiClient, apiAvailable, cache, server, nextId, now, ops,
                   tm, auth, mgr, sentBP, added, lastGood, probed>>

\* The health probe of init() is answered: the rest of init() runs.
ProbeResult(c, outcome) ==
    /\ c.pc = "probe"
    /\ LET local == modeAfterProbe(healthCheck(outcome)) IN
       /\ apiAvailable' = healthCheck(outcome)
       /\ useLocalStorage' = local
       /\ localStorage' = storeAfterInit(local)
       /\ initialized' = TRUE
       /\ AfterInit(c, local, storeAfterInit(local))
    /\ probed' = outcome
    /\ UNCHANGED <<impl, apiClient, cache, server, nextId, now, ops, probes,
                   tm, auth, mgr, sentBP, added, lastGood>>

\* The page's scripts finish loading: apiClient.js defines window.apiClient,
\* and APIClient.init sets its flag once its own health check has settled.
ClientAppears ==
    /\ ~apiClient.present
    /\ apiClient' = [apiClient EXCEPT !.present = TRUE]
    /\ UNCHANGED <<impl, useLocalStorage, initialized, apiAvailable, localStorage, cache,
                   server, nextId, now, calls, ops, last, probes, tm, auth, mgr, sentBP, added, lastGood, probed>>

ClientReady ==
    /\ apiClient.present /\ ~apiClient.initialized
    /\ apiClient' = [apiClient EXCEPT !.initialized = TRUE]
    /\ UNCHANGED <<impl, useLocalStorage, initialized, apiAvailable, localStorage, cache,
                   server, nextId, now, calls, ops, last, probes, tm, auth, mgr, sentBP, added, lastGood, probed>>

\* StorageManager.clearAll: every key under the prefix is removed, then the
\* store is seeded again.
removeItems(store) == [k \in Keys |-> Absent]

clearAll(store) == initLocalStorage(removeItems(store))

ClearAll ==
    /\ impl = "StorageManager"
    /\ ops < MaxOps
    /\ ops' = ops + 1
    /\ localStorage' = clearAll(localStorage)
    /\ last' = Done(Call("clearAll", "faculty", NoArg, "sync"), "none", "returned", <<>>)
    /\ UNCHANGED <<impl, apiClient, useLocalStorage, initialized, apiAvailable, cache,
                   server, nextId, now, calls, probes, tm, auth, mgr, sentBP, added, lastGood, probed>>

---------------------------------------------------------------------------
(* StorageManager: the read accessors.                                     *)

\* getFaculty, getRooms, getSubjects, getLeaveRequests (e names the entity)
\* and getTimetable, up to their first suspension.
StartGet(op, e) ==
    /\ impl = "StorageManager"
    /\ CanIssue
    /\ ops' = ops + 1
    /\ LET c == Call(op, e, NoArg, "new") IN
       IF ~initialized
       THEN /\ EnterInit(c)
            /\ last' = last
       ELSE /\ Accessor(c, useLocalStorage, localStorage)
            /\ probes' = probes
    /\ UNCHANGED <<impl, apiClient, useLocalStorage, initialized, apiAvailable, localStorage,
                   cache, server, nextId, now, tm, auth, mgr, sentBP, added, lastGood, probed>>

\* How a REMOTE read ends once the gateway has answered: it returns the
\* payload, or on any failure what the durable local store holds for the entity.
readAfterGateway_rethrow(c, r) ==
    IF r.ok THEN Done(c, "ok", "returned", r.val)
    ELSE Done(c, "fail", "raised", <<Error(r.msg)>>)

readAfterGateway(c, r) ==
    IF r.ok THEN Done(c, "ok", "returned", r.val)
    ELSE Done(c, "fail", "returned", getFromLocalStorage(localStorage, c.e))

\* window.apiClient.get<Entity>() settles inside a read accessor.
GetResult(c, resp) ==
    /\ impl = "StorageManager"
    /\ c.pc = "gw" /\ c.op = "get"
    /\ LET r == makeRequest(resp, server[c.e]) IN
       /\ last' = readAfterGateway(c, r)
       /\ lastGood' = IF r.ok THEN [lastGood EXCEPT ![c.e] = Some(r.val)] ELSE lastGood
    /\ calls' = calls \ {c}
    /\ UNCHANGED <<impl, apiClient, useLocalStorage, initialized, apiAvailable, localStorage,
                   cache, server, nextId, now, ops, probes, tm, auth, mgr, sentBP, added, probed>>

\* APIClient.getTimetable: a failure whose message includes 'not found' is
\* turned into null; every other failure is raised again.
apiGetTimetable(r) ==
    IF r.ok THEN r
    ELSE IF r.msg = "not found" THEN [ok |-> TRUE, val |-> <<>>, msg |-> ""]
    ELSE r

\* window.apiClient.getTimetable() settles inside StorageManager.getTimetable.
GetTimetableResult(c, resp) ==
    /\ c.pc = "gw" /\ c.op = "getTimetable"
    /\ LET r == apiGetTimetable(makeRequest(resp, <<"grid">>)) IN
       last' = Done(c, IF r.ok THEN "ok" ELSE "fail", "returned",
                    IF r.ok THEN r.val
                    ELSE IF getItem(localStorage, "timetable") = Absent THEN <<>>
                    ELSE <<JSONparse(getItem(localStorage, "timetable")[1])>>)
    /\ calls' = calls \ {c}
    /\ UNCHANGED <<impl, apiClient, useLocalStorage, initialized, apiAvailable, localStorage,
                   cache, server, nextId, now, ops, probes, tm, auth, mgr, sentBP, added, lastGood, probed>>

---------------------------------------------------------------------------
(* StorageManager: the mutators.                                           *)

Statuses == {"approved", "rejected"}

\* The record a LOCAL add builds: { id: Date.now(), ...data }, and for a leave
\* request also status 'pending'.
newLocal_anonymous(e, id, d) == Rec(0, d)

newLocal(e, id, d) ==
    IF e = "leaveRequests" THEN [id |-> id, d |-> d, status |-> "pending"] ELSE Rec(id, d)

\* The record APIClient.add<Entity> returns: { id, ...data }, and for a leave
\* request also status 'pending'.
newRemote(e, id, d) ==
    IF e = "leaveRequests" THEN [id |-> id, d |-> d, status |-> "pending"] ELSE Rec(id, d)

\* The record the remote service stores for a create request.
serverRecord(e, id, d) ==
    IF e = "leaveRequests" THEN [id |-> id, d |-> d, status |-> "pending"] ELSE Rec(id, d)

filter_all(list, id) == <<>>

filter(list, id) == SelectSeq(list, LAMBDA r : r.id # id)

\* set<Entity>: writes the store only in LOCAL mode.
setEntity(store, local, e, list) ==
    IF local THEN setItem(store, e, JSONstringify(list)) ELSE store

\* setBreaks, setPracticals: always write the store.
setLocalOnly(store, e, list) == setItem(store, e, JSONstringify(list))

\* addFaculty, addRoom, addSubject, addLeaveRequest; dt is the time that passed
\* since Date.now() was last read.
StartAdd(e, d, dt) ==
    /\ impl = "StorageManager"
    /\ CanIssue
    /\ ops' = ops + 1
    /\ LET c == Call("add", e, Rec(0, d), "gw") IN
       IF useLocalStorage
       THEN /\ now' = now + dt
            /\ localStorage' = setEntity(localStorage, useLocalStorage, e,
                                   Append(getFromLocalStorage(localStorage, e),
                                          newLocal(e, now + dt, d)))
            /\ last' = Done(c, "none", "returned", <<newLocal(e, now + dt, d)>>)
            /\ calls' = calls
       ELSE /\ dt = 0
            /\ calls' = calls \cup {c}
            /\ UNCHANGED <<localStorage, last, now>>
    /\ UNCHANGED <<impl, apiClient, useLocalStorage, initialized, apiAvailable,
                   cache, server, nextId, probes, tm, auth, mgr, sentBP, added, lastGood, probed>>

\* What a failed gateway call does to a write: the error goes to the caller.
writeFailure_swallowed(c, r) == Done(c, "fail", "returned", <<>>)

writeFailure(c, r) == Done(c, "fail", "raised", <<Error(r.msg)>>)

\* window.apiClient.add<Entity>() settles inside an add.
AddResult(c, resp) ==
    /\ impl = "StorageManager"
    /\ c.pc = "gw" /\ c.op = "add"
    /\ LET r == makeRequest(resp, nextId[c.e]) IN
       IF r.ok
       THEN /\ server' = [server EXCEPT ![c.e] = Append(@, serverRecord(c.e, nextId[c.e], c.arg.d))]
            /\ nextId' = [nextId EXCEPT ![c.e] = @ + 1]
            /\ added' = [added EXCEPT ![c.e] = @ \cup {newRemote(c.e, r.val, c.arg.d).id}]
            /\ last' = Done(c, "ok", "returned", <<newRemote(c.e, r.val, c.arg.d)>>)
       ELSE /\ last' = writeFailure(c, r)
            /\ UNCHANGED <<server, nextId, added>>
    /\ calls' = calls \ {c}
    /\ UNCHANGED <<impl, apiClient, useLocalStorage, initialized, apiAvailable, localStorage,
                   cache, now, ops, probes, tm, auth, mgr, sentBP, lastGood, probed>>

\* A remove or an update of identifier id is issued: from here on a read need
\* not show the record any more.
forget(e, id) == [added EXCEPT ![e] = @ \ {id}]
forgetInFlight(e, id) ==
    {IF c.e = e /\ c.op = "get" THEN [c EXCEPT !.exp = @ \ {id}] ELSE c : c \in calls}

\* removeFaculty, removeRoom, removeSubject.
StartRemove(e, id) ==
    /\ impl = "StorageManager"
    /\ CanIssue
    /\ ops' = ops + 1
    /\ added' = forget(e, id)
    /\ LET c == Call("remove", e, Rec(id, "a"), "gw") IN
       IF useLocalStorage
       THEN /\ localStorage' = setEntity(localStorage, useLocalStorage, e,
                                   filter(getFromLocalStorage(localStorage, e), id))
            /\ last' = Done(c, "none", "returned", <<>>)
            /\ calls' = forgetInFlight(e, id)
       ELSE /\ calls' = forgetInFlight(e, id) \cup {c}
            /\ UNCHANGED <<localStorage, last>>
    /\ UNCHANGED <<impl, apiClient, useLocalStorage, initialized, apiAvailable,
                   cache, server, nextId, now, probes, tm, auth, mgr, sentBP, lastGood, probed>>

\* window.apiClient.remove<Entity>() settles inside a remove.
RemoveResult(c, resp) ==
    /\ impl = "StorageManager"
    /\ c.pc = "gw" /\ c.op = "remove"
    /\ LET r == makeRequest(resp, <<>>) IN
       IF r.ok
       THEN /\ server' = [server EXCEPT ![c.e] = filter(@, c.arg.id)]
            /\ last' = Done(c, "ok", "returned", <<>>)
       ELSE /\ last' = writeFailure(c, r)
            /\ server' = server
    /\ calls' = calls \ {c}
    /\ UNCHANGED <<impl, apiClient, useLocalStorage, initialized, apiAvailable, localStorage,
                   cache, nextId, now, ops, probes, tm, auth, mgr, sentBP, added, lastGood, probed>>

\* requests[index] = { ...requests[index], ...updates } for the first record
\* with the identifier; the list unchanged when there is none.
merge_untouched(list, id, status) == list

merge(list, id, status) ==
    LET idx == {i \in 1..Len(list) : list[i].id = id} IN
    IF idx = {} THEN list
    ELSE LET i == CHOOSE j \in idx : \A k \in idx : j <= k IN
         [list EXCEPT ![i] = [@ EXCEPT !.status = status]]

find(list, id) ==
    LET idx == {i \in 1..Len(list) : list[i].id = id} IN
    IF idx = {} THEN <<>> ELSE <<list[CHOOSE j \in idx : \A k \in idx : j <= k]>>

\* updateLeaveRequest(id, {status}).
StartUpdate(id, status) ==
    /\ impl = "StorageManager"
    /\ CanIssue
    /\ ops' = ops + 1
    /\ LET c == Call("update", "leaveRequests", Rec(id, status), "gw")
           requests == getFromLocalStorage(localStorage, "leaveRequests") IN
       IF useLocalStorage
       THEN /\ localStorage' = IF find(requests, id) # <<>>
                               THEN setEntity(localStorage, useLocalStorage, "leaveRequests",
                                              merge(requests, id, status))
                               ELSE localStorage
            /\ last' = Done(c, "none", "returned", find(merge(requests, id, status), id))
            /\ calls' = calls
       ELSE /\ calls' = calls \cup {c}
            /\ UNCHANGED <<localStorage, last>>
    /\ UNCHANGED <<impl, apiClient, useLocalStorage, initialized, apiAvailable,
                   cache, server, nextId, now, probes, tm, auth, mgr, sentBP, added, lastGood, probed>>

\* window.apiClient.updateLeaveRequest() settles: it returns the updates.
UpdateResult(c, resp) ==
    /\ impl = "StorageManager"
    /\ c.pc = "gw" /\ c.op = "update"
    /\ LET r == makeRequest(resp, <<>>) IN
       IF r.ok
       THEN /\ server' = [server EXCEPT ![c.e] = merge(@, c.arg.id, c.arg.d)]
            /\ last' = Done(c, "ok", "returned", <<[status |-> c.arg.d]>>)
       ELSE /\ last' = writeFailure(c, r)
            /\ server' = server
    /\ calls' = calls \ {c}
    /\ UNCHANGED <<impl, apiClient, useLocalStorage, initialized, apiAvailable, localStorage,
                   cache, nextId, now, ops, probes, tm, auth, mgr, sentBP, added, lastGood, probed>>

---------------------------------------------------------------------------
(* Breaks and practicals: StorageManager keeps them in the local store.    *)

\* breaks[index] = { ...breaks[index], ...updates }
mergeData(list, id, d) ==
    LET idx == {i \in 1..Len(list) : list[i].id = id} IN
    IF idx = {} THEN list
    ELSE [list EXCEPT ![CHOOSE j \in idx : \A k \in idx : j <= k] = [@ EXCEPT !.d = d]]

\* The store after one operation on breaks or practicals (k names the key):
\* getBreaks / addBreak / removeBreak, and BreaksManager.updateBreak, which
\* merges into its copy of the list and hands it to setBreaks.
localOnlyStore(k, op, id, d, t) ==
    LET list == getFromLocalStorage(localStorage, k) IN
    CASE op = "get"    -> localStorage
      [] op = "add"    -> setLocalOnly(localStorage, k, Append(list, Rec(t, d)))
      [] op = "remove" -> setLocalOnly(localStorage, k, filter(list, id))
      [] op = "update" -> IF find(list, id) # <<>>
                          THEN setLocalOnly(localStorage, k, mergeData(list, id, d))
                          ELSE localStorage

localOnlyResult(k, op, id, d, t) ==
    LET list == getFromLocalStorage(localStorage, k) IN
    CASE op = "get"    -> list
      [] op = "add"    -> <<Rec(t, d)>>
      [] op = "remove" -> <<>>
      [] op = "update" -> find(mergeData(list, id, d), id)

\* The break and practical records one such operation sends to the gateway: none.
localOnlyRequests_posted(k, op) == {<<k, Rec(1, "a")>>}

localOnlyRequests(k, op) == {}

\* One synchronous operation on breaks or practicals; the arguments an
\* operation does not take are fixed (id 1, data "a", no time elapsed).
LocalOnlyOp(k, op, id, d, dt) ==
    /\ impl = "StorageManager"
    /\ ops < MaxOps
    /\ op \in {"get", "add"} => id = 1
    /\ op \in {"get", "remove"} => d = "a"
    /\ op # "add" => dt = 0
    /\ ops' = ops + 1
    /\ now' = now + dt
    /\ localStorage' = localOnlyStore(k, op, id, d, now + dt)
    /\ last' = Done(Call(op, k, NoArg, "sync"), "none", "returned",
                    localOnlyResult(k, op, id, d, now + dt))
    /\ sentBP' = sentBP \cup localOnlyRequests(k, op)
    /\ UNCHANGED <<impl, apiClient, useLocalStorage, initialized, apiAvailable,
                   cache, server, nextId, calls, probes, tm, auth, mgr, added, lastGood, probed>>

---------------------------------------------------------------------------
(* TimetableManager: the grid and the object as its constructor leaves it. *)

days == {"Monday", "Tuesday", "Wednesday", "Thursday", "Friday"}
periods == {"9:00-10:00", "10:00-11:00", "11:00-12:00", "12:00-1:00", "2:00-3:00", "3:00-4:00"}

\* The object {} the constructor assigns to this.timetable.
EmptyObject == [k \in {} |-> Absent]

\* A grid cell is null (Absent) or a slot.
Slot(faculty) == Some([subject |-> "s", faculty |-> faculty, room |-> "r"])

getDefaultTimetable == [day \in days |-> [period \in periods |-> Absent]]

\* this.timetable[day] && this.timetable[day][period], for whatever object
\* this.timetable holds.
slotAt(timetable, day, period) ==
    IF day \in DOMAIN timetable /\ period \in DOMAIN timetable[day]
    THEN timetable[day][period] ELSE Absent

getFacultyTimetable(timetable, facultyName) ==
    [day \in days |-> [period \in periods |->
        LET slot == slotAt(timetable, day, period) IN
        IF slot # Absent /\ slot[1].faculty = facultyName THEN slot ELSE Absent]]

\* The grids the service computes: every pair of day and period has a cell,
\* and option n puts its one class into the first period of Monday.
optionGrid(n) ==
    [day \in days |-> [period \in periods |->
        IF day = "Monday" /\ period = "9:00-10:00" THEN Slot(IF n = 1 THEN "a" ELSE "b")
        ELSE Absent]]

\* The data of the service's answer to a generate request.
generateResponse ==
    [timetables |-> <<[timetable |-> optionGrid(1), score |-> 2],
                      [timetable |-> optionGrid(2), score |-> 1]>>,
     timetable_id |-> 1]

\* The data of the service's answer to GET /timetable once a timetable is
\* published: with its creation time, or the bare grid.
publishedTimetable(wrapped) ==
    IF wrapped THEN [timetable |-> optionGrid(1), created_at |-> 0] ELSE optionGrid(1)

\* new TimetableManager(), before the loadTimetable() its init() starts has settled.
TimetableManager ==
    [timetable |-> EmptyObject, published |-> FALSE, lastGenerated |-> Absent,
     lastPublished |-> Absent, currentTimetableId |-> 0, availableTimetables |-> <<>>]

---------------------------------------------------------------------------
(* TimetableManager.generateTimetable.                                     *)

GenSteps == <<"faculty", "rooms", "subjects">>

\* The click on "generate": the first of three reads sent straight to the gateway.
StartGenerate ==
    /\ impl = "StorageManager"
    /\ CanIssue
    /\ ops' = ops + 1
    /\ calls' = calls \cup {[Call("generate", "timetable", NoArg, "fetch") EXCEPT !.a = 1]}
    /\ UNCHANGED <<impl, apiClient, useLocalStorage, initialized, apiAvailable, localStorage,
                   cache, server, nextId, now, last, probes, tm, auth, mgr, sentBP, added, lastGood, probed>>

\* The breaks and practicals generateTimetable puts in its request payload.
generatePayload ==
    UNION {{<<k, getFromLocalStorage(localStorage, k)[i]>> :
               i \in 1..Len(getFromLocalStorage(localStorage, k))} : k \in LocalOnly}

\* apiClient.getFaculty / getRooms / getSubjects settles inside generateTimetable.
\* A failure, or an empty collection once all three are read, ends the handler in
\* its catch block (a toast); otherwise the generate request goes out.
GenerateFetch(c, resp) ==
    /\ c.op = "generate" /\ c.pc = "fetch"
    /\ LET r == makeRequest(resp, server[GenSteps[c.a]])
           empty == c.empty \/ (r.ok /\ r.val = <<>>) IN
       IF ~r.ok \/ (c.a = Len(GenSteps) /\ empty)
       THEN /\ calls' = calls \ {c}
            /\ last' = Done(c, IF r.ok THEN "ok" ELSE "fail", "returned", <<>>)
            /\ sentBP' = sentBP
       ELSE IF c.a < Len(GenSteps)
       THEN /\ calls' = (calls \ {c}) \cup {[c EXCEPT !.a = c.a + 1, !.empty = empty]}
            /\ UNCHANGED <<last, sentBP>>
       ELSE /\ calls' = (calls \ {c}) \cup {[c EXCEPT !.pc = "post"]}
            /\ sentBP' = sentBP \cup generatePayload
            /\ last' = last
    /\ UNCHANGED <<impl, apiClient, useLocalStorage, initialized, apiAvailable, localStorage,
                   cache, server, nextId, now, ops, probes, tm, auth, mgr, added, lastGood, probed>>

\* generateTimetable after its request settled as r: the first option becomes
\* the held grid, as a draft; a failure, or a response without timetables,
\* ends in the catch block and changes nothing.
generateTimetable(t, r) ==
    IF r.ok /\ "timetables" \in DOMAIN r.val[1]
    THEN LET response == r.val[1]
             bestTimetable == response.timetables[1] IN
         [t EXCEPT !.availableTimetables = response.timetables,
                   !.currentTimetableId = response.timetable_id,
                   !.timetable = IF "timetable" \in DOMAIN bestTimetable
                                 THEN bestTimetable.timetable ELSE bestTimetable,
                   !.lastGenerated = Some(now),
                   !.published = FALSE]
    ELSE t

\* apiClient.generateTimetable settles.
GenerateResult(c, resp) ==
    /\ c.op = "generate" /\ c.pc = "post"
    /\ LET r == makeRequest(resp, <<generateResponse>>) IN
       /\ tm' = generateTimetable(tm, r)
       /\ last' = Done(c, IF r.ok THEN "ok" ELSE "fail", "returned", <<>>)
    /\ calls' = calls \ {c}
    /\ UNCHANGED <<impl, apiClient, useLocalStorage, initialized, apiAvailable, localStorage,
                   cache, server, nextId, now, ops, probes, auth, mgr, sentBP, added, lastGood, probed>>

---------------------------------------------------------------------------
(* APIStorageAdapter (storage_api.js), the other definition of             *)
(* window.storage.  It has no mode: every call goes to the gateway.        *)

\* response.success, where response is what APIClient handed back.  That is
\* the payload makeRequest unwrapped, never the envelope: an array, the
\* record { id, ...data }, or the updates passed in.  None of them has a
\* property named success.
responseSuccess(kind) == kind = "envelope"

\* getFaculty, getRooms, getSubjects, getLeaveRequests: the cache entry after
\* the gateway answered (response.data of an array is undefined), and the
\* value returned.
adapterCache(e, r) ==
    IF r.ok /\ responseSuccess("array") THEN [cache EXCEPT ![e] = <<>>] ELSE cache

adapterRead(c, r) ==
    IF r.ok /\ responseSuccess("array")
    THEN Done(c, "ok", "returned", <<>>)
    ELSE Done(c, IF r.ok THEN "ok" ELSE "fail", "returned", cache[c.e])

\* A read accessor of the adapter is called.
AdapterGet(e) ==
    /\ impl = "APIStorageAdapter"
    /\ CanIssue
    /\ ops' = ops + 1
    /\ calls' = calls \cup {Call("get", e, NoArg, "gw")}
    /\ UNCHANGED <<impl, apiClient, useLocalStorage, initialized, apiAvailable, localStorage,
                   cache, server, nextId, now, last, probes, tm, auth, mgr, sentBP, added, lastGood, probed>>

\* apiClient.get<Entity>() settles inside the adapter's read accessor.
AdapterGetResult(c, resp) ==
    /\ impl = "APIStorageAdapter"
    /\ c.pc = "gw" /\ c.op = "get"
    /\ LET r == makeRequest(resp, server[c.e]) IN
       /\ cache' = adapterCache(c.e, r)
       /\ last' = adapterRead(c, r)
       /\ lastGood' = IF r.ok THEN [lastGood EXCEPT ![c.e] = Some(r.val)] ELSE lastGood
    /\ calls' = calls \ {c}
    /\ UNCHANGED <<impl, apiClient, useLocalStorage, initialized, apiAvailable, localStorage,
                   server, nextId, now, ops, probes, tm, auth, mgr, sentBP, added, probed>>

\* addFaculty, addRoom, addSubject, addLeaveRequest of the adapter.
AdapterAdd(e, d) ==
    /\ impl = "APIStorageAdapter"
    /\ CanIssue
    /\ ops' = ops + 1
    /\ calls' = calls \cup {Call("add", e, Rec(0, d), "gw")}
    /\ UNCHANGED <<impl, apiClient, useLocalStorage, initialized, apiAvailable, localStorage,
                   cache, server, nextId, now, last, probes, tm, auth, mgr, sentBP, added, lastGood, probed>>

\* apiClient.add<Entity>() settles inside the adapter's add.  The service has
\* stored the record when it answers with success; the adapter then looks for
\* response.success, finds none and raises 'Failed to add ...'; the refresh
\* of the cache that would follow is never reached.
AdapterAddResult(c, resp) ==
    /\ impl = "APIStorageAdapter"
    /\ c.pc = "gw" /\ c.op = "add"
    /\ LET r == makeRequest(resp, nextId[c.e]) IN
       /\ server' = IF r.ok
                    THEN [server EXCEPT ![c.e] = Append(@, serverRecord(c.e, nextId[c.e], c.arg.d))]
                    ELSE server
       /\ nextId' = IF r.ok THEN [nextId EXCEPT ![c.e] = @ + 1] ELSE nextId
       /\ last' = IF r.ok /\ responseSuccess("record")
                  THEN Done(c, "ok", "returned", <<newRemote(c.e, r.val, c.arg.d)>>)
                  ELSE IF r.ok THEN Done(c, "ok", "raised", <<Error("Failed to add")>>)
                  ELSE writeFailure(c, r)
    /\ calls' = calls \ {c}
    /\ UNCHANGED <<impl, apiClient, useLocalStorage, initialized, apiAvailable, localStorage,
                   cache, now, ops, probes, tm, auth, mgr, sentBP, added, lastGood, probed>>

\* removeFaculty of the adapter calls apiClient.deleteFaculty, which APIClient
\* does not define: the TypeError is caught and raised again, no request is made.
AdapterRemoveFaculty(id) ==
    /\ impl = "APIStorageAdapter"
    /\ ops < MaxOps
    /\ ops' = ops + 1
    /\ last' = Done(Call("remove", "faculty", NoArg, "sync"), "none", "raised",
                    <<Error("apiClient.deleteFaculty is not a function")>>)
    /\ UNCHANGED <<impl, apiClient, useLocalStorage, initialized, apiAvailable, localStorage,
                   cache, server, nextId, now, calls, probes, tm, auth, mgr, sentBP, added, lastGood, probed>>

\* updateLeaveRequest(id, updates) of the adapter: it passes updates.status on.
AdapterUpdate(id, status) ==
    /\ impl = "APIStorageAdapter"
    /\ CanIssue
    /\ ops' = ops + 1
    /\ calls' = calls \cup {Call("update", "leaveRequests", Rec(id, status), "gw")}
    /\ UNCHANGED <<impl, apiClient, useLocalStorage, initialized, apiAvailable, localStorage,
                   cache, server, nextId, now, last, probes, tm, auth, mgr, sentBP, added, lastGood, probed>>

\* apiClient.updateLeaveRequest() settles inside the adapter: it returned the
\* status string it was given, which has no property success either.
AdapterUpdateResult(c, resp) ==
    /\ impl = "APIStorageAdapter"
    /\ c.pc = "gw" /\ c.op = "update"
    /\ LET r == makeRequest(resp, <<>>) IN
       /\ server' = IF r.ok THEN [server EXCEPT ![c.e] = merge(@, c.arg.id, c.arg.d)] ELSE server
       /\ last' = IF r.ok /\ responseSuccess("string")
                  THEN Done(c, "ok", "returned", find(cache[c.e], c.arg.id))
                  ELSE IF r.ok THEN Done(c, "ok", "raised", <<Error("Failed to update leave request")>>)
                  ELSE writeFailure(c, r)
    /\ calls' = calls \ {c}
    /\ UNCHANGED <<impl, apiClient, useLocalStorage, initialized, apiAvailable, localStorage,
                   cache, nextId, now, ops, probes, tm, auth, mgr, sentBP, added, lastGood, probed>>

---------------------------------------------------------------------------
(* The gateway's methods called directly (timetable.js, rooms.js), and the *)
(* adapter's generateTimetable / publishTimetable on top of them.          *)

ApiMethods == {"getFaculty", "getTimetable", "generateTimetable", "publishTimetable"}

\* What the service puts in the data property of its answer.
apiPayload(m) ==
    CASE m = "getFaculty"        -> server["faculty"]
      [] m = "getTimetable"      -> <<[timetable |-> "grid"]>>
      [] m = "generateTimetable" -> <<[timetables |-> "options", timetable_id |-> 1]>>
      [] m = "publishTimetable"  -> <<[message |-> "published"]>>

\* APIClient.generateTimetable / publishTimetable: the response is returned as
\* it is, and the catch logs and throws the error it caught.  The get, add and
\* remove methods return or await makeRequest with no catch at all.
apiPassThrough_wrapped(q) == IF q.ok THEN q ELSE Raised("Failed to generate timetable")

apiPassThrough(q) == q

apiMethod(m, q) == IF m = "getTimetable" THEN apiGetTimetable(q) ELSE apiPassThrough(q)

\* What the caller of a method sees once its request has settled as q and the
\* method's own code has made r of it.
Settled(c, q, r) ==
    Done(c, IF q.ok THEN "ok" ELSE "fail", IF r.ok THEN "returned" ELSE "raised",
         IF r.ok THEN r.val ELSE <<Error(r.msg)>>)

\* A consumer calls a method of window.apiClient.
ApiCall(m) ==
    /\ CanIssue
    /\ ops' = ops + 1
    /\ calls' = calls \cup {Call(m, IF m = "getFaculty" THEN "faculty" ELSE "timetable", NoArg, "gw")}
    /\ UNCHANGED <<impl, apiClient, useLocalStorage, initialized, apiAvailable, localStorage,
                   cache, server, nextId, now, last, probes, tm, auth, mgr, sentBP, added, lastGood, probed>>

\* Its fetch settles.
ApiResult(c, w) ==
    /\ c.pc = "gw" /\ c.op \in ApiMethods
    /\ LET q == request(w, apiPayload(c.op)) IN last' = Settled(c, q, apiMethod(c.op, q))
    /\ calls' = calls \ {c}
    /\ UNCHANGED <<impl, apiClient, useLocalStorage, initialized, apiAvailable, localStorage,
                   cache, server, nextId, now, ops, probes, tm, auth, mgr, sentBP, added, lastGood, probed>>

\* What kind of value a method handed back: the envelope or a payload.
shape(val) == IF val = Envelope THEN "envelope" ELSE "payload"

\* response.data, tested by the adapter's getTimetable: the envelope is only
\* handed back when it has no data property, and no payload carries one.
responseData(kind) == kind = "nested"

\* APIStorageAdapter.generateTimetable / publishTimetable once the gateway
\* method has settled as r: an error is thrown again as it is; a response
\* with a success property is accepted; any other makes the adapter raise
\* its own error.
adapterPass(m, r) ==
    IF ~r.ok THEN r
    ELSE IF responseSuccess(shape(r.val)) THEN [ok |-> TRUE, val |-> <<>>, msg |-> ""]
    ELSE Raised(IF m = "generateTimetable" THEN "Failed to generate timetable"
                ELSE "Failed to publish timetable")

\* cache.timetable after the adapter's getTimetable (the refresh in publishTimetable).
adapterTimetableCache(r) ==
    IF r.ok /\ r.val # <<>> /\ responseSuccess(shape(r.val)) /\ responseData(shape(r.val))
    THEN [cache EXCEPT !["timetable"] = r.val]
    ELSE cache

\* storage.generateTimetable / storage.publishTimetable of the adapter is called.
AdapterPass(m) ==
    /\ impl = "APIStorageAdapter"
    /\ CanIssue
    /\ ops' = ops + 1
    /\ calls' = calls \cup {Call(m, "timetable", NoArg, "pass")}
    /\ UNCHANGED <<impl, apiClient, useLocalStorage, initialized, apiAvailable, localStorage,
                   cache, server, nextId, now, last, probes, tm, auth, mgr, sentBP, added, lastGood, probed>>

\* The gateway method settles inside the adapter.  An accepted publish goes on
\* to refresh the timetable with this.getTimetable().
AdapterPassResult(c, w) ==
    /\ c.pc = "pass"
    /\ LET q == request(w, apiPayload(c.op))
           r == adapterPass(c.op, apiMethod(c.op, q)) IN
       IF r.ok /\ c.op = "publishTimetable"
       THEN /\ calls' = (calls \ {c}) \cup {[c EXCEPT !.pc = "refresh"]}
            /\ last' = last
       ELSE /\ calls' = calls \ {c}
            /\ last' = Settled(c, q, r)
    /\ UNCHANGED <<impl, apiClient, useLocalStorage, initialized, apiAvailable, localStorage,
                   cache, server, nextId, now, ops, probes, tm, auth, mgr, sentBP, added, lastGood, probed>>

\* apiClient.getTimetable() settles inside the refresh: the adapter's
\* getTimetable never raises, and publishTimetable returns true.
AdapterRefreshResult(c, w) ==
    /\ c.pc = "refresh"
    /\ cache' = adapterTimetableCache(apiGetTimetable(request(w, apiPayload("getTimetable"))))
    /\ last' = Done(c, "ok", "returned", <<[value |-> TRUE]>>)
    /\ calls' = calls \ {c}
    /\ UNCHANGED <<impl, apiClient, useLocalStorage, initialized, apiAvailable, localStorage,
                   server, nextId, now, ops, probes, tm, auth, mgr, sentBP, added, lastGood, probed>>

---------------------------------------------------------------------------
(* TimetableManager: loadTimetable, publishTimetable, selectTimetableOption *)
(* and importTimetable.                                                     *)

\* loadTimetable after apiClient.getTimetable() settled as r: whatever the
\* gateway handed back becomes the held timetable and counts as published;
\* null (no timetable yet) and every failure install the default grid.
loadTimetable(t, r) ==
    IF r.ok /\ r.val # <<>>
    THEN LET response == r.val[1]
             created == IF "created_at" \in DOMAIN response THEN response.created_at ELSE now IN
         IF "timetable" \in DOMAIN response
         THEN [t EXCEPT !.timetable = response.timetable, !.published = TRUE,
                        !.lastGenerated = Some(created), !.lastPublished = Some(created)]
         ELSE [t EXCEPT !.timetable = response, !.published = TRUE,
                        !.lastGenerated = Some(now), !.lastPublished = Some(now)]
    ELSE [t EXCEPT !.timetable = getDefaultTimetable, !.published = FALSE,
                   !.lastGenerated = Absent, !.lastPublished = Absent]

\* loadTimetable() is called: by the periodic refresh timer, after a login,
\* by the faculty and student dashboards, by the admin page.  The call is
\* numbered, as every call of a handler below, to tell it from an earlier one
\* that is still awaiting.
LoadTimetable ==
    /\ CanIssue
    /\ ops' = ops + 1
    /\ calls' = calls \cup {[Call("load", "timetable", NoArg, "tm") EXCEPT !.a = ops']}
    /\ UNCHANGED <<last, tm, server, mgr>>
    /\ UNCHANGED <<impl, apiClient, useLocalStorage, initialized, apiAvailable, localStorage,
                   cache, nextId, now, probes, auth, sentBP, added, lastGood, probed>>

\* apiClient.getTimetable() settles inside loadTimetable.
LoadResult(c, w, wrapped) ==
    /\ c.op = "load" /\ c.pc = "tm"
    /\ LET q == request(w, <<publishedTimetable(wrapped)>>)
           r == apiGetTimetable(q) IN
       /\ tm' = loadTimetable(tm, r)
       /\ last' = Done(c, IF q.ok THEN "ok" ELSE "fail", "returned", <<>>)
    /\ calls' = calls \ {c}
    /\ UNCHANGED <<ops, server, mgr>>
    /\ UNCHANGED <<impl, apiClient, useLocalStorage, initialized, apiAvailable, localStorage,
                   cache, nextId, now, probes, auth, sentBP, added, lastGood, probed>>

\* publishTimetable's test of this.currentTimetableId.
publishable(t) == t.currentTimetableId # 0

\* The click on "publish": without a timetable id a toast and nothing else;
\* with one, the publish request goes out.
PublishTimetable ==
    /\ ops < MaxOps
    /\ ops' = ops + 1
    /\ IF publishable(tm)
       THEN /\ Cardinality(calls) < Cardinality(Callers)
            /\ calls' = calls \cup {[Call("publish", "timetable", Rec(tm.currentTimetableId, "a"),
                                         "tm") EXCEPT !.a = ops']}
            /\ last' = last
       ELSE /\ calls' = calls
            /\ last' = Done(Call("publish", "timetable", NoArg, "sync"), "none", "returned", <<>>)
    /\ UNCHANGED <<tm, server, mgr>>
    /\ UNCHANGED <<impl, apiClient, useLocalStorage, initialized, apiAvailable, localStorage,
                   cache, nextId, now, probes, auth, sentBP, added, lastGood, probed>>

\* publishTimetable after apiClient.publishTimetable(id) settled as r.
publishTimetable_eager(t, r) == [t EXCEPT !.published = TRUE, !.lastPublished = Some(now)]

publishTimetable(t, r) ==
    IF r.ok THEN [t EXCEPT !.published = TRUE, !.lastPublished = Some(now)] ELSE t

\* apiClient.publishTimetable() settles inside publishTimetable.
PublishResult(c, w) ==
    /\ c.op = "publish" /\ c.pc = "tm"
    /\ LET r == apiPassThrough(request(w, apiPayload("publishTimetable"))) IN
       /\ tm' = publishTimetable(tm, r)
       /\ last' = Done(c, IF r.ok THEN "ok" ELSE "fail", "returned", <<>>)
    /\ calls' = calls \ {c}
    /\ UNCHANGED <<ops, server, mgr>>
    /\ UNCHANGED <<impl, apiClient, useLocalStorage, initialized, apiAvailable, localStorage,
                   cache, nextId, now, probes, auth, sentBP, added, lastGood, probed>>

\* selectTimetableOption(index), index counted from 0.
selectTimetableOption(t, index) ==
    IF index >= 0 /\ index < Len(t.availableTimetables)
    THEN [t EXCEPT !.timetable = t.availableTimetables[index + 1].timetable]
    ELSE t

SelectTimetableOption(index) ==
    /\ ops < MaxOps
    /\ ops' = ops + 1
    /\ tm' = selectTimetableOption(tm, index)
    /\ last' = Done(Call("select", "timetable", NoArg, "sync"), "none", "returned", <<>>)
    /\ UNCHANGED <<calls, server, mgr>>
    /\ UNCHANGED <<impl, apiClient, useLocalStorage, initialized, apiAvailable, localStorage,
                   cache, nextId, now, probes, auth, sentBP, added, lastGood, probed>>

\* The files importTimetable is given: text that is no JSON, JSON without a
\* timetable property, and an export whose timetable covers Monday only.
mondayOnly == [day \in {"Monday"} |-> [period \in periods |-> Absent]]

ImportFiles ==
    {[text |-> "timetable"],
     JSONstringify([faculty |-> <<>>]),
     JSONstringify([timetable |-> mondayOnly, settings |-> [published |-> TRUE]])}

settingsKeys == {"published", "lastGenerated", "lastPublished"}

\* importTimetable(jsonData): the timetable of the file replaces the held one
\* and the file's settings are merged over the held settings.
importTimetable(t, jsonData) ==
    IF "json" \in DOMAIN jsonData /\ "timetable" \in DOMAIN JSONparse(jsonData)
    THEN LET data == JSONparse(jsonData)
             settings == IF "settings" \in DOMAIN data THEN data.settings ELSE EmptyObject IN
         [k \in DOMAIN t |->
             IF k = "timetable" THEN data.timetable
             ELSE IF k \in settingsKeys /\ k \in DOMAIN settings THEN settings[k]
             ELSE t[k]]
    ELSE t

ImportTimetable(jsonData) ==
    /\ ops < MaxOps
    /\ ops' = ops + 1
    /\ tm' = importTimetable(tm, jsonData)
    /\ last' = Done(Call("import", "timetable", NoArg, "sync"), "none", "returned",
                    <<[value |-> tm' # tm]>>)
    /\ UNCHANGED <<calls, server, mgr>>
    /\ UNCHANGED <<impl, apiClient, useLocalStorage, initialized, apiAvailable, localStorage,
                   cache, nextId, now, probes, auth, sentBP, added, lastGood, probed>>

---------------------------------------------------------------------------
(* LeaveManager.handleApprove / handleReject (leave.js) and                *)
(* TimetableManager.handleLeaveApproval.                                   *)

\* Whether handleApprove / handleReject goes on to
\* timetableManager.handleLeaveApproval once its update settled as q.
rescheduleAfter_always(op, q) == op = "approve"

rescheduleAfter(op, q) == op = "approve" /\ q.ok

\* A click on "approve" or "reject": the status update goes out.
HandleLeave(op, id) ==
    /\ CanIssue
    /\ ops' = ops + 1
    /\ calls' = calls \cup {[Call(op, "leaveRequests",
                                  Rec(id, IF op = "approve" THEN "approved" ELSE "rejected"),
                                  "update") EXCEPT !.a = ops']}
    /\ UNCHANGED <<last, tm, server, mgr>>
    /\ UNCHANGED <<impl, apiClient, useLocalStorage, initialized, apiAvailable, localStorage,
                   cache, nextId, now, probes, auth, sentBP, added, lastGood, probed>>

\* apiClient.updateLeaveRequest() settles: it returns the updates it was
\* given, which LeaveManager.updateLeaveRequest merges into its list; a
\* failure is raised again into the handler's catch block (a toast).
LeaveUpdateResult(c, w) ==
    /\ c.op \in {"approve", "reject"} /\ c.pc = "update"
    /\ LET q == request(w, <<>>) IN
       /\ server' = IF q.ok THEN [server EXCEPT !["leaveRequests"] = merge(@, c.arg.id, c.arg.d)]
                    ELSE server
       /\ mgr' = IF q.ok THEN [mgr EXCEPT !["leaveRequests"] = merge(@, c.arg.id, c.arg.d)]
                 ELSE mgr
       /\ IF rescheduleAfter(c.op, q)
          THEN /\ calls' = (calls \ {c}) \cup {[c EXCEPT !.pc = "reschedule"]}
               /\ last' = last
          ELSE /\ calls' = calls \ {c}
               /\ last' = Done(c, IF q.ok THEN "ok" ELSE "fail", "returned", <<>>)
    /\ UNCHANGED <<ops, tm>>
    /\ UNCHANGED <<impl, apiClient, useLocalStorage, initialized, apiAvailable, localStorage,
                   cache, nextId, now, probes, auth, sentBP, added, lastGood, probed>>

\* handleLeaveApproval after apiClient.autoReschedule() settled as r.  A
\* response without a true success property is reported as a failure; any
\* other becomes the held timetable (response.data || response), published.
handleLeaveApproval(t, r) ==
    IF ~r.ok THEN t
    ELSE LET response == r.val[1] IN
         IF ~("success" \in DOMAIN response /\ response.success) THEN t
         ELSE [t EXCEPT !.timetable = IF "data" \in DOMAIN response THEN response.data
                                       ELSE response,
                        !.lastGenerated = Some(now),
                        !.published = TRUE]

\* apiClient.autoReschedule() settles inside handleLeaveApproval.
RescheduleResult(c, w) ==
    /\ c.pc = "reschedule"
    /\ LET r == apiPassThrough(request(w, <<optionGrid(2)>>)) IN
       /\ tm' = handleLeaveApproval(tm, r)
       /\ last' = Done(c, IF r.ok THEN "ok" ELSE "fail", "returned", <<>>)
    /\ calls' = calls \ {c}
    /\ UNCHANGED <<ops, server, mgr>>
    /\ UNCHANGED <<impl, apiClient, useLocalStorage, initialized, apiAvailable, localStorage,
                   cache, nextId, now, probes, auth, sentBP, added, lastGood, probed>>

---------------------------------------------------------------------------
(* AuthManager (auth.js) and the managers' lists, as constructed.          *)

\* null
Null == Absent

AuthManager == [currentUser |-> Null, isAuthenticated |-> FALSE, initialized |-> FALSE]

Managers == [e \in Remote |-> <<>>]

---------------------------------------------------------------------------
(* Logging in: APIClient.login, AuthManager, StorageManager.authenticateUser. *)

\* The credentials typed into the login form: the default administrator, the
\* default faculty member, the administrator with a wrong password, and a
\* faculty member only the service knows.
Credentials ==
    {[username |-> "admin", password |-> "admin123", role |-> "admin"],
     [username |-> "faculty1", password |-> "faculty123", role |-> "faculty"],
     [username |-> "admin", password |-> "wrong", role |-> "admin"],
     [username |-> "faculty2", password |-> "faculty456", role |-> "faculty"]}

\* The user record the service sends for a login it accepts.
remoteUser(cred) ==
    [id |-> 9, username |-> cred.username, role |-> cred.role,
     name |-> IF cred.username = "admin" THEN "System Administrator" ELSE "S. P. Shinde",
     email |-> "remote@college.edu"]

\* APIClient.login on what its own fetch brought back: data.data (undefined,
\* <<>>, when the answer has no data property), or a raised Error.
login(w, payload) ==
    IF ~w.settled THEN Raised("Failed to fetch")
    ELSE IF ~w.parses THEN Raised("Unexpected token")
    ELSE IF ~w.ok \/ ~w.success
    THEN Raised(IF w.error # "" THEN w.error ELSE "Authentication failed")
    ELSE [ok |-> TRUE, val |-> IF w.data THEN payload ELSE <<>>, msg |-> ""]

\* users.find(u => u.username === username && u.password === password && u.role === role)
findUser(users, cred) ==
    LET idx == {i \in 1..Len(users) : /\ users[i].username = cred.username
                                      /\ users[i].password = cred.password
                                      /\ users[i].role = cred.role} IN
    IF idx = {} THEN <<>> ELSE <<users[CHOOSE j \in idx : \A k \in idx : j <= k]>>

\* { id, username, role, name, email } of a user: the password is left out.
publicUser(user) ==
    [id |-> user.id, username |-> user.username, role |-> user.role,
     name |-> user.name, email |-> user.email]

\* AuthManager.getDefaultUsers: the list of auth.js.
authDefaultUsers ==
    << [id |-> 1, username |-> "admin", password |-> "admin123", role |-> "admin",
        name |-> "System Administrator", email |-> "admin@college.edu"],
       [id |-> 2, username |-> "faculty1", password |-> "faculty123", role |-> "faculty",
        name |-> "S. P. Shinde", email |-> "shinde@avcoe.edu"],
       [id |-> 3, username |-> "student1", password |-> "student123", role |-> "student",
        name |-> "Sujay", email |-> "sujay@college.edu"] >>

\* this.currentUser.loginTime = new Date().toISOString()
withLoginTime(user) ==
    [k \in DOMAIN user \cup {"loginTime"} |-> IF k = "loginTime" THEN now ELSE user[k]]

\* { ...this.currentUser, ...updates }
spread(user, updates) ==
    [k \in DOMAIN user \cup DOMAIN updates |-> IF k \in DOMAIN updates THEN updates[k] ELSE user[k]]

removeItem(store, key) == [store EXCEPT ![key] = Absent]

\* AuthManager.init, run once when the page has loaded: a saved user is
\* restored, and the login form and the dashboards are wired up.
AuthInit ==
    /\ ~auth.initialized
    /\ ops' = ops
    /\ LET savedUser == getItem(localStorage, "currentUser") IN
       auth' = IF savedUser # Absent
               THEN [currentUser |-> Some(JSONparse(savedUser[1])), isAuthenticated |-> TRUE,
                     initialized |-> TRUE]
               ELSE [auth EXCEPT !.initialized = TRUE]
    /\ last' = Done(Call("authInit", "users", NoArg, "sync"), "none", "returned", <<>>)
    /\ UNCHANGED <<localStorage, calls>>
    /\ UNCHANGED <<impl, apiClient, useLocalStorage, initialized, apiAvailable, cache, server,
                   nextId, now, probes, tm, mgr, sentBP, added, lastGood, probed>>

\* The tail of AuthManager.login once this.currentUser holds a user.
loggedIn(user) ==
    [auth EXCEPT !.currentUser = Some(withLoginTime(user)), !.isAuthenticated = TRUE]

\* AuthManager.login(username, password, role): with a ready gateway the
\* remote login goes out; without one the credentials are looked up in the
\* default users.
Login(cred) ==
    /\ auth.initialized
    /\ ops < MaxOps
    /\ ops' = ops + 1
    /\ IF apiClient.present /\ apiClient.initialized
       THEN /\ Cardinality(calls) < Cardinality(Callers)
            /\ calls' = calls \cup {[Call("login", "users", cred, "login") EXCEPT !.a = ops']}
            /\ UNCHANGED <<auth, localStorage, last>>
       ELSE LET user == findUser(authDefaultUsers, cred) IN
            /\ calls' = calls
            /\ IF user = <<>>
               THEN /\ last' = Done(Call("login", "users", cred, "sync"), "none", "raised",
                                    <<Error("Invalid credentials")>>)
                    /\ UNCHANGED <<auth, localStorage>>
               ELSE /\ auth' = loggedIn(publicUser(user[1]))
                    /\ localStorage' = setItem(localStorage, "currentUser",
                                               JSONstringify(withLoginTime(publicUser(user[1]))))
                    /\ last' = Done(Call("login", "users", cred, "sync"), "none", "returned",
                                    <<withLoginTime(publicUser(user[1]))>>)
    /\ UNCHANGED <<impl, apiClient, useLocalStorage, initialized, apiAvailable, cache, server,
                   nextId, now, probes, tm, mgr, sentBP, added, lastGood, probed>>

\* window.apiClient.login() settles inside AuthManager.login.  What it
\* returned is assigned to this.currentUser before anything is read from it:
\* undefined makes the next statement raise a TypeError.
LoginResult(c, w) ==
    /\ c.op = "login" /\ c.pc = "login"
    /\ LET r == login(w, <<remoteUser(c.arg)>>) IN
       IF ~r.ok
       THEN /\ last' = Done(c, "fail", "raised", <<Error(r.msg)>>)
            /\ UNCHANGED <<auth, localStorage>>
       ELSE IF r.val = <<>>
       THEN /\ auth' = [auth EXCEPT !.currentUser = Null]
            /\ last' = Done(c, "ok", "raised", <<Error("Cannot set properties of undefined")>>)
            /\ UNCHANGED localStorage
       ELSE /\ auth' = loggedIn(r.val[1])
            /\ localStorage' = setItem(localStorage, "currentUser",
                                       JSONstringify(withLoginTime(r.val[1])))
            /\ last' = Done(c, "ok", "returned", <<withLoginTime(r.val[1])>>)
    /\ calls' = calls \ {c}
    /\ UNCHANGED ops
    /\ UNCHANGED <<impl, apiClient, useLocalStorage, initialized, apiAvailable, cache, server,
                   nextId, now, probes, tm, mgr, sentBP, added, lastGood, probed>>

\* AuthManager.logout
logout == [auth EXCEPT !.currentUser = Null, !.isAuthenticated = FALSE]

Logout ==
    /\ auth.initialized
    /\ ops < MaxOps
    /\ ops' = ops + 1
    /\ auth' = logout
    /\ localStorage' = removeItem(localStorage, "currentUser")
    /\ last' = Done(Call("logout", "users", NoArg, "sync"), "none", "returned", <<>>)
    /\ UNCHANGED calls
    /\ UNCHANGED <<impl, apiClient, useLocalStorage, initialized, apiAvailable, cache, server,
                   nextId, now, probes, tm, mgr, sentBP, added, lastGood, probed>>

FacultyNames == {"S. P. Shinde", "System Administrator"}

\* AuthManager.removeFacultyUser(facultyName): logs out if it names the current user.
RemoveFacultyUser(facultyName) ==
    /\ auth.initialized
    /\ ops < MaxOps
    /\ ops' = ops + 1
    /\ LET mine == auth.currentUser # Null /\ auth.currentUser[1].name = facultyName IN
       /\ auth' = IF mine THEN logout ELSE auth
       /\ localStorage' = IF mine THEN removeItem(localStorage, "currentUser") ELSE localStorage
    /\ last' = Done(Call("removeFacultyUser", "users", NoArg, "sync"), "none", "returned", <<>>)
    /\ UNCHANGED calls
    /\ UNCHANGED <<impl, apiClient, useLocalStorage, initialized, apiAvailable, cache, server,
                   nextId, now, probes, tm, mgr, sentBP, added, lastGood, probed>>

\* AuthManager.updateFacultyUserData(facultyName, updates): merges the updates
\* into the current user, if that is the faculty member named, and saves it.
UpdateFacultyUserData(facultyName, updates) ==
    /\ auth.initialized
    /\ ops < MaxOps
    /\ ops' = ops + 1
    /\ LET mine == /\ auth.currentUser # Null
                   /\ auth.currentUser[1].role = "faculty"
                   /\ auth.currentUser[1].name = facultyName
           user == spread(auth.currentUser[1], updates) IN
       /\ auth' = IF mine THEN [auth EXCEPT !.currentUser = Some(user)] ELSE auth
       /\ localStorage' = IF mine THEN setItem(localStorage, "currentUser", JSONstringify(user))
                          ELSE localStorage
    /\ last' = Done(Call("updateFacultyUserData", "users", NoArg, "sync"), "none", "returned", <<>>)
    /\ UNCHANGED calls
    /\ UNCHANGED <<impl, apiClient, useLocalStorage, initialized, apiAvailable, cache, server,
                   nextId, now, probes, tm, mgr, sentBP, added, lastGood, probed>>

\* StorageManager.getUsers: the stored list, or the default users when none is stored.
getUsers(store) ==
    IF getItem(store, "users") = Absent THEN getDefaultUsers
    ELSE JSONparse(getItem(store, "users")[1])

\* The fallback of StorageManager.authenticateUser: the matching user of
\* getUsers() without its password, or the Error 'Invalid credentials'.
authenticateLocal(c, gw, store) ==
    LET user == findUser(getUsers(store), c.arg) IN
    IF user # <<>> THEN Done(c, gw, "returned", <<publicUser(user[1])>>)
    ELSE Done(c, gw, "raised", <<Error("Invalid credentials")>>)

\* StorageManager.authenticateUser once window.apiClient.login() settled as
\* r: its result is returned; any failure is logged and the fallback runs.
authenticateRemote_rethrow(c, r, store) ==
    IF r.ok THEN Done(c, "ok", "returned", r.val)
    ELSE Done(c, "fail", "raised", <<Error(r.msg)>>)

authenticateRemote(c, r, store) ==
    IF r.ok THEN Done(c, "ok", "returned", r.val)
    ELSE authenticateLocal(c, "fail", store)

\* storage.authenticateUser(username, password, role): the remote login goes
\* out only if useLocalStorage is false and apiAvailable is true.
AuthenticateUser(cred) ==
    /\ impl = "StorageManager"
    /\ ops < MaxOps
    /\ ops' = ops + 1
    /\ LET c == [Call("authenticate", "users", cred, "auth") EXCEPT !.a = ops'] IN
       IF ~useLocalStorage /\ apiAvailable
       THEN /\ Cardinality(calls) < Cardinality(Callers)
            /\ calls' = calls \cup {c}
            /\ last' = last
       ELSE /\ calls' = calls
            /\ last' = authenticateLocal(c, "none", localStorage)
    /\ UNCHANGED <<auth, localStorage>>
    /\ UNCHANGED <<impl, apiClient, useLocalStorage, initialized, apiAvailable, cache, server,
                   nextId, now, probes, tm, mgr, sentBP, added, lastGood, probed>>

\* window.apiClient.login() settles inside storage.authenticateUser.
AuthenticateResult(c, w) ==
    /\ c.op = "authenticate" /\ c.pc = "auth"
    /\ last' = authenticateRemote(c, login(w, <<remoteUser(c.arg)>>), localStorage)
    /\ calls' = calls \ {c}
    /\ UNCHANGED <<ops, auth, localStorage>>
    /\ UNCHANGED <<impl, apiClient, useLocalStorage, initialized, apiAvailable, cache, server,
                   nextId, now, probes, tm, mgr, sentBP, added, lastGood, probed>>

---------------------------------------------------------------------------
(* Initial states.                                                         *)

EmptyStore == [k \in Keys |-> Absent]

\* What an earlier session in LOCAL mode left behind: the seeded keys, one
\* subject and one break.
EarlierStore ==
    [initLocalStorage(EmptyStore) EXCEPT
        !["subjects"] = Some(JSONstringify(<<Rec(1, "b")>>)),
        !["breaks"] = Some(JSONstringify(<<Rec(1, "a")>>))]

EmptyServer == [e \in Remote |-> <<>>]
FilledServer == [e \in Remote |-> <<serverRecord(e, 1, "a")>>]

InitCommon ==
    /\ useLocalStorage = FALSE
    /\ initialized = FALSE
    /\ apiAvailable = FALSE
    /\ \E fresh \in BOOLEAN :
          /\ localStorage = IF fresh THEN EmptyStore ELSE EarlierStore
          /\ server = IF fresh THEN EmptyServer ELSE FilledServer
    /\ cache = [e \in Remote \cup {"timetable"} |-> <<>>]
    /\ nextId = [e \in Remote |-> Len(server[e]) + 1]
    /\ now = 1
    /\ ops = 0
    /\ last = [op |-> "none", e |-> "faculty", gw |-> "none", out |-> "returned", val |-> <<>>,
               seq |-> 0, exp |-> {}, prev |-> Absent]
    /\ tm = TimetableManager
    /\ auth = AuthManager
    /\ mgr = Managers
    /\ sentBP = {}
    /\ added = [e \in Remote |-> {}]
    /\ lastGood = [e \in Remote |-> Absent]
    /\ probed = "none"
    \* storage.js ends by calling storage.init(): that call is in flight.
    /\ calls = IF impl = "StorageManager"
               THEN {[Call("init", "faculty", NoArg, "new") EXCEPT !.pc = waitForAPIClient(0)]}
               ELSE {}
    /\ probes = Cardinality({c \in calls : c.pc = "probe"})

\* The page loaded apiClient.js and then storage.js, and APIClient.init has settled.
Init ==
    /\ impl \in {"StorageManager", "APIStorageAdapter"}
    /\ apiClient = [present |-> TRUE, initialized |-> TRUE]
    /\ InitCommon

\* Mode determination.
Arbitrate ==
    \/ ConsumerInit
    \/ \E c \in calls, o \in ProbeOutcomes : ProbeResult(c, o)

\* The operations on the entities that have a remote representation.
Next ==
    \/ Arbitrate
    \/ \E e \in Remote : StartGet("get", e)
    \/ StartGet("getTimetable", "timetable")
    \/ \E c \in calls, resp \in Responses : GetResult(c, resp)
    \/ \E c \in calls, resp \in Responses : GetTimetableResult(c, resp)
    \/ \E e \in Remote, d \in Data, dt \in Elapsed : StartAdd(e, d, dt)
    \/ \E c \in calls, resp \in Responses : AddResult(c, resp)
    \/ \E e \in Remote \ {"leaveRequests"}, id \in InputIds : StartRemove(e, id)
    \/ \E c \in calls, resp \in Responses : RemoveResult(c, resp)
    \/ \E id \in InputIds, s \in Statuses : StartUpdate(id, s)
    \/ \E c \in calls, resp \in Responses : UpdateResult(c, resp)
    \/ \E e \in Remote : AdapterGet(e)
    \/ \E c \in calls, resp \in Responses : AdapterGetResult(c, resp)
    \/ \E e \in Remote, d \in Data : AdapterAdd(e, d)
    \/ \E c \in calls, resp \in Responses : AdapterAddResult(c, resp)
    \/ \E id \in InputIds : AdapterRemoveFaculty(id)
    \/ \E id \in InputIds, st \in Statuses : AdapterUpdate(id, st)
    \/ \E c \in calls, resp \in Responses : AdapterUpdateResult(c, resp)

Spec == Init /\ [][Next]_vars

\* Breaks, practicals and timetable generation.
NextLocalOnly ==
    \/ Arbitrate
    \/ \E k \in LocalOnly, op \in {"get", "add", "remove", "update"}, id \in InputIds,
          d \in Data, dt \in Elapsed : LocalOnlyOp(k, op, id, d, dt)
    \/ StartGenerate
    \/ \E c \in calls, resp \in Responses : GenerateFetch(c, resp)
    \/ \E c \in calls, resp \in Responses : GenerateResult(c, resp)

\* The page that loads storage.js: only StorageManager has these operations.
InitLocalOnly == Init /\ impl = "StorageManager"

SpecLocalOnly == InitLocalOnly /\ [][NextLocalOnly]_vars

\* The gateway used directly and through the adapter's pass-through methods.
NextGateway ==
    \/ Arbitrate
    \/ \E m \in ApiMethods : ApiCall(m)
    \/ \E c \in calls, w \in Wires : ApiResult(c, w)
    \/ \E m \in {"generateTimetable", "publishTimetable"} : AdapterPass(m)
    \/ \E c \in calls, w \in Wires : AdapterPassResult(c, w)
    \/ \E c \in calls, w \in Wires : AdapterRefreshResult(c, w)

SpecGateway == Init /\ [][NextGateway]_vars

\* The page with storage.js: adds and removes of the gateway-backed entities
\* next to the operations on breaks and practicals.
NextLocal ==
    \/ Arbitrate
    \/ \E e \in Remote, d \in Data, dt \in Elapsed : StartAdd(e, d, dt)
    \/ \E c \in calls, resp \in Responses : AddResult(c, resp)
    \/ \E e \in Remote \ {"leaveRequests"}, id \in InputIds : StartRemove(e, id)
    \/ \E c \in calls, resp \in Responses : RemoveResult(c, resp)
    \/ \E k \in LocalOnly, op \in {"get", "add", "remove", "update"}, id \in InputIds,
          d \in Data, dt \in Elapsed : LocalOnlyOp(k, op, id, d, dt)

SpecLocal == InitLocalOnly /\ [][NextLocal]_vars

\* What a session in REMOTE mode left behind: nothing was seeded, and one
\* break was stored (breaks are kept locally in every mode).
PartialStore == [EmptyStore EXCEPT !["breaks"] = Some(JSONstringify(<<Rec(1, "a")>>))]

\* storage.js is loaded at any point of the page's start-up: window.apiClient
\* may not be defined yet, or be defined with APIClient.init still waiting for
\* its own health check.
InitArb ==
    /\ impl = "StorageManager"
    /\ apiClient \in {[present |-> FALSE, initialized |-> FALSE],
                       [present |-> TRUE, initialized |-> FALSE],
                       [present |-> TRUE, initialized |-> TRUE]}
    /\ useLocalStorage = FALSE
    /\ initialized = FALSE
    /\ apiAvailable = FALSE
    /\ localStorage \in {EmptyStore, PartialStore, EarlierStore}
    /\ server = EmptyServer
    /\ cache = [e \in Remote \cup {"timetable"} |-> <<>>]
    /\ nextId = [e \in Remote |-> 1]
    /\ now = 1
    /\ ops = 0
    /\ last = [op |-> "none", e |-> "faculty", gw |-> "none", out |-> "returned", val |-> <<>>,
               seq |-> 0, exp |-> {}, prev |-> Absent]
    /\ tm = TimetableManager
    /\ auth = AuthManager
    /\ mgr = Managers
    /\ sentBP = {}
    /\ added = [e \in Remote |-> {}]
    /\ lastGood = [e \in Remote |-> Absent]
    /\ probed = "none"
    /\ calls = {[Call("init", "faculty", NoArg, "new") EXCEPT !.pc = waitForAPIClient(0)]}
    /\ probes = Cardinality({c \in calls : c.pc = "probe"})

\* Mode determination with its waits, and the reset of the store.
NextArb ==
    \/ Arbitrate
    \/ \E c \in calls : Poll(c)
    \/ ClientAppears
    \/ ClientReady
    \/ ClearAll

\* A timer that was set fires, and a fetch that was issued settles.
FairArb ==
    /\ WF_vars(\E c \in calls : Poll(c))
    /\ WF_vars(\E c \in calls, o \in ProbeOutcomes : ProbeResult(c, o))

SpecArb == InitArb /\ [][NextArb]_vars /\ FairArb

\* A users list put into the store by importData, in which the administrator
\* has another password.
ImportedUsers ==
    << [id |-> 1, username |-> "admin", password |-> "wrong", role |-> "admin",
        name |-> "System Administrator", email |-> "admin@college.edu"] >>

\* The user an earlier session left logged in.
savedUser == [k \in DOMAIN publicUser(authDefaultUsers[2]) \cup {"loginTime"} |->
                 IF k = "loginTime" THEN 0 ELSE authDefaultUsers[2][k]]

UserUpdates == {[email |-> "new@college.edu"], [name |-> "S. Shinde"]}

\* The page once storage.init() has committed its mode (REMOTE only with a
\* ready gateway), before auth.init() has run.  The store is empty, or what
\* an earlier session left, with or without an imported users list and a
\* logged-in user; LOCAL mode has seeded it.
InitAuth ==
    /\ impl = "StorageManager"
    /\ \E ready \in BOOLEAN, remote \in BOOLEAN :
          /\ remote => ready
          /\ apiClient = [present |-> TRUE, initialized |-> ready]
          /\ useLocalStorage = ~remote
          /\ apiAvailable = remote
          /\ probed = IF remote THEN "healthy" ELSE "error"
          /\ \E base \in {EmptyStore, EarlierStore,
                           [EarlierStore EXCEPT !["users"] = Some(JSONstringify(ImportedUsers))]},
                saved \in BOOLEAN :
                LET store == IF remote THEN base ELSE initLocalStorage(base) IN
                localStorage = IF saved THEN setItem(store, "currentUser", JSONstringify(savedUser))
                               ELSE store
    /\ initialized = TRUE
    /\ server = EmptyServer
    /\ cache = [e \in Remote \cup {"timetable"} |-> <<>>]
    /\ nextId = [e \in Remote |-> 1]
    /\ now = 1
    /\ ops = 0
    /\ last = [op |-> "none", e |-> "faculty", gw |-> "none", out |-> "returned", val |-> <<>>,
               seq |-> 0, exp |-> {}, prev |-> Absent]
    /\ tm = TimetableManager
    /\ auth = AuthManager
    /\ mgr = Managers
    /\ sentBP = {}
    /\ added = [e \in Remote |-> {}]
    /\ lastGood = [e \in Remote |-> Absent]
    /\ probes = 1
    /\ calls = {}

\* Logging in and out, and the faculty manager's calls into the AuthManager.
NextAuth ==
    \/ AuthInit
    \/ \E cred \in Credentials : Login(cred)
    \/ \E c \in calls, w \in Wires : LoginResult(c, w)
    \/ Logout
    \/ \E facultyName \in FacultyNames : RemoveFacultyUser(facultyName)
    \/ \E facultyName \in FacultyNames, updates \in UserUpdates :
          UpdateFacultyUserData(facultyName, updates)
    \/ \E cred \in Credentials : AuthenticateUser(cred)
    \/ \E c \in calls, w \in Wires : AuthenticateResult(c, w)

SpecAuth == InitAuth /\ [][NextAuth]_vars

---------------------------------------------------------------------------
(* The entity managers' add handlers (faculty.js, rooms.js).               *)

Managed == {"faculty", "rooms", "subjects"}

\* What is typed into an add form: the name, and the email (faculty) or the
\* code (subjects).  Two names differ only in case; two forms share the key.
Forms ==
    {[name |-> "a", key |-> "x"], [name |-> "A", key |-> "y"], [name |-> "b", key |-> "x"]}

toLowerCase(s) == IF s = "A" THEN "a" ELSE s

\* The duplicate test of each handler on its list.  An entry without a name
\* (a pending Promise) compares unequal to every input.
duplicate(e, list, form) ==
    \E i \in 1..Len(list) :
        /\ "name" \in DOMAIN list[i]
        /\ IF e = "rooms" THEN toLowerCase(list[i].name) = toLowerCase(form.name)
           ELSE list[i].name = form.name \/ list[i].key = form.key

\* { id, ...data }: what apiClient.add<Entity> returns, id being what makeRequest returned.
withId(id, form) == [id |-> id, name |-> form.name, key |-> form.key]

\* FacultyManager.addFaculty, RoomsManager.addRoom, SubjectsManager.addSubject,
\* up to the first await: a duplicate is refused with a toast.  In LOCAL mode
\* addFaculty calls window.storage.addFaculty without awaiting it: the store is
\* written at once and the Promise it returned is pushed onto the list.  In
\* every other case the handler suspends in the gateway's add.
ManagerAdd(e, form, dt) ==
    /\ impl = "StorageManager"
    /\ ops < MaxOps
    /\ ops' = ops + 1
    /\ LET c == [Call("managerAdd", e, form, "mgr") EXCEPT !.a = ops'] IN
       IF duplicate(e, mgr[e], form)
       THEN /\ dt = 0
            /\ last' = Done(c, "none", "refused", <<>>)
            /\ UNCHANGED <<calls, mgr, localStorage, now>>
       ELSE IF e = "faculty" /\ useLocalStorage
       THEN /\ now' = now + dt
            /\ localStorage' = setEntity(localStorage, useLocalStorage, e,
                                   Append(getFromLocalStorage(localStorage, e),
                                          newLocal(e, now + dt, form.name)))
            /\ mgr' = [mgr EXCEPT ![e] = Append(@, [promise |-> newLocal(e, now + dt, form.name)])]
            /\ last' = Done(c, "none", "returned", <<>>)
            /\ calls' = calls
       ELSE /\ dt = 0
            /\ Cardinality(calls) < Cardinality(Callers)
            /\ calls' = calls \cup {c}
            /\ UNCHANGED <<mgr, localStorage, last, now>>
    /\ UNCHANGED <<impl, apiClient, useLocalStorage, initialized, apiAvailable, cache, server,
                   nextId, probes, tm, auth, sentBP, added, lastGood, probed>>

\* The gateway's add settles inside a handler: the new entry is pushed, or
\* the failure is caught and shown as a toast.
ManagerAddResult(c, w) ==
    /\ c.op = "managerAdd" /\ c.pc = "mgr"
    /\ LET r == request(w, nextId[c.e]) IN
       IF r.ok
       THEN /\ server' = [server EXCEPT ![c.e] = Append(@, serverRecord(c.e, nextId[c.e], c.arg.name))]
            /\ nextId' = [nextId EXCEPT ![c.e] = @ + 1]
            /\ mgr' = [mgr EXCEPT ![c.e] = Append(@, withId(r.val, c.arg))]
            /\ last' = Done(c, "ok", "returned", <<withId(r.val, c.arg)>>)
       ELSE /\ last' = Done(c, "fail", "returned", <<>>)
            /\ UNCHANGED <<server, nextId, mgr>>
    /\ calls' = calls \ {c}
    /\ UNCHANGED <<impl, apiClient, useLocalStorage, initialized, apiAvailable, localStorage,
                   cache, now, ops, probes, tm, auth, sentBP, added, lastGood, probed>>

\* The admin page once storage.init() has committed its mode and the
\* managers have loaded their lists from a service that has none yet.
InitManagers ==
    /\ impl = "StorageManager"
    /\ apiClient = [present |-> TRUE, initialized |-> TRUE]
    /\ \E remote \in BOOLEAN :
          /\ useLocalStorage = ~remote
          /\ apiAvailable = remote
          /\ probed = IF remote THEN "healthy" ELSE "error"
          /\ localStorage = IF remote THEN EmptyStore ELSE initLocalStorage(EmptyStore)
    /\ initialized = TRUE
    /\ server = EmptyServer
    /\ cache = [e \in Remote \cup {"timetable"} |-> <<>>]
    /\ nextId = [e \in Remote |-> 1]
    /\ now = 1
    /\ ops = 0
    /\ last = [op |-> "none", e |-> "faculty", gw |-> "none", out |-> "returned", val |-> <<>>,
               seq |-> 0, exp |-> {}, prev |-> Absent]
    /\ tm = TimetableManager
    /\ auth = AuthManager
    /\ mgr = Managers
    /\ sentBP = {}
    /\ added = [e \in Remote |-> {}]
    /\ lastGood = [e \in Remote |-> Absent]
    /\ probes = 1
    /\ calls = {}

NextManagers ==
    \/ \E e \in Managed, form \in Forms, dt \in Elapsed : ManagerAdd(e, form, dt)
    \/ \E c \in calls, w \in Wires : ManagerAddResult(c, w)

SpecManagers == InitManagers /\ [][NextManagers]_vars

\* The admin page once storage.init() has committed REMOTE: timetable.js has
\* constructed the TimetableManager, whose init() started loadTimetable().
InitTimetable ==
    /\ impl = "StorageManager"
    /\ apiClient = [present |-> TRUE, initialized |-> TRUE]
    /\ useLocalStorage = FALSE
    /\ initialized = TRUE
    /\ apiAvailable = TRUE
    /\ \E fresh \in BOOLEAN :
          /\ localStorage = IF fresh THEN EmptyStore ELSE EarlierStore
          /\ server = IF fresh THEN EmptyServer ELSE FilledServer
    /\ cache = [e \in Remote \cup {"timetable"} |-> <<>>]
    /\ nextId = [e \in Remote |-> Len(server[e]) + 1]
    /\ now = 1
    /\ ops = 0
    /\ last = [op |-> "none", e |-> "faculty", gw |-> "none", out |-> "returned", val |-> <<>>,
               seq |-> 0, exp |-> {}, prev |-> Absent]
    /\ tm = TimetableManager
    /\ auth = AuthManager
    /\ mgr = [Managers EXCEPT !["leaveRequests"] = server["leaveRequests"]]
    /\ sentBP = {}
    /\ added = [e \in Remote |-> {}]
    /\ lastGood = [e \in Remote |-> Absent]
    /\ probed = "healthy"
    /\ probes = 1
    /\ calls = {Call("load", "timetable", NoArg, "tm")}

\* The timetable and leave handlers of the admin page.
NextTimetable ==
    \/ LoadTimetable
    \/ \E c \in calls, w \in Wires, wrapped \in BOOLEAN : LoadResult(c, w, wrapped)
    \/ StartGenerate
    \/ \E c \in calls, resp \in Responses : GenerateFetch(c, resp)
    \/ \E c \in calls, resp \in Responses : GenerateResult(c, resp)
    \/ PublishTimetable
    \/ \E c \in calls, w \in Wires : PublishResult(c, w)
    \/ \E index \in 0..2 : SelectTimetableOption(index)
    \/ \E jsonData \in ImportFiles : ImportTimetable(jsonData)
    \/ \E op \in {"approve", "reject"}, id \in InputIds : HandleLeave(op, id)
    \/ \E c \in calls, w \in Wires : LeaveUpdateResult(c, w)
    \/ \E c \in calls, w \in Wires : RescheduleResult(c, w)

SpecTimetable == InitTimetable /\ [][NextTimetable]_vars

---------------------------------------------------------------------------
(* Properties.                                                             *)

\* A call completed in this step.
Completed == last'.seq # last.seq

Reads == {"get", "getTimetable"}
Writes == {"add", "remove", "update"}

\* C1: a read accessor whose gateway call failed returns to its caller (it does
\* not raise), and the step in which it ends leaves the durable local store
\* and the adapter's cache as they were.
C1_FailedReadDegrades ==
    [][(Completed /\ last'.op \in Reads /\ last'.gw = "fail")
          => (last'.out = "returned" /\ localStorage' = localStorage /\ cache' = cache)]_vars

C1_Witness == last.op = "get" /\ last.gw = "fail" /\ last.out = "returned" /\ ~useLocalStorage

\* C2: a write whose gateway call failed raises the error to its caller, and
\* the step in which it ends writes nothing to the durable local store.
C2_FailedWriteRaises ==
    [][(Completed /\ last'.op \in Writes /\ last'.gw = "fail")
          => (last'.out = "raised" /\ localStorage' = localStorage)]_vars

C2_Witness == last.op = "remove" /\ last.gw = "fail" /\ last.out = "raised"

\* C3: the storage layer issues at most one health probe in its lifetime.
C3_AtMostOneProbe == probes <= 1

\* C4: once initialized is true, useLocalStorage never changes again.
C4_ModeFixedOnceCommitted == [][initialized => useLocalStorage' = useLocalStorage]_vars

\* C5: with the gateway present, whenever a mode is committed it is REMOTE if
\* the health probe that settled last answered 'healthy', and LOCAL if it
\* answered anything else or failed.
C5_ModeFollowsProbe ==
    (initialized /\ apiClient.present /\ probed # "none")
        => (useLocalStorage <=> probed # "healthy")

C5_Witness == initialized /\ probed = "other" /\ useLocalStorage

\* C6: every read issued in REMOTE mode after a remote add had succeeded (no
\* remove of that identifier since) returns a list with the assigned
\* identifier in it.
C6_ReadAfterAddShowsRecord ==
    (last.op = "get" /\ last.gw # "none") => last.exp \subseteq Ids(last.val)

\* C7: a getRooms() that fails at the gateway after an earlier getRooms() had
\* succeeded returns the list that earlier call returned.
C7_FailedReadReturnsLastList ==
    (last.op = "get" /\ last.e = "rooms" /\ last.gw = "fail" /\ last.prev # Absent)
        => (last.out = "returned" /\ last.val = last.prev[1])

\* C8: the adapter's cache entry of every entity holds what the latest
\* successful read of it returned (the initial empty list before any).
C8_CacheHoldsLatestRead ==
    impl = "APIStorageAdapter"
        => \A e \in Remote : cache[e] = (IF lastGood[e] = Absent THEN <<>> ELSE lastGood[e][1])

\* C9 as stated: no break and no practical is ever sent to the gateway.
C9_NothingSent == sentBP = {}

\* C9 amended: the operations on breaks and practicals themselves (get, add,
\* update, remove) send nothing to the gateway, issue no call and leave the
\* remote collections and the cache alone, whatever the mode.
C9_LocalOnlyOpsStayLocal ==
    [][(Completed /\ last'.e \in LocalOnly)
          => (sentBP' = sentBP /\ calls' = calls /\ server' = server /\ cache' = cache)]_vars

C9_Witness ==
    last.e \in LocalOnly /\ last.op = "update" /\ last.val # <<>> /\ initialized /\ ~useLocalStorage

\* C10: once init has committed LOCAL, the store holds a collection under the
\* key of every entity type.
C10_AllEntitiesSeeded ==
    (initialized /\ useLocalStorage)
        => \A k \in Remote \cup LocalOnly : getItem(localStorage, k) # Absent

\* The calls still inside init(): waiting for the gateway or for the probe.
InInit == {c \in calls : c.pc \in {"waitClient", "waitReady", "probe"}}

\* C11: seeding never overwrites: every key that holds a value when
\* initLocalStorage starts (in init's LOCAL branch, or in clearAll once the
\* keys have been removed) holds the same value when it ends.
C11_SeedingKeepsExistingData ==
    [][/\ ((\E c \in calls, o \in ProbeOutcomes : ProbeResult(c, o)) \/ (\E c \in calls : Poll(c)))
          => \A k \in Keys : getItem(localStorage, k) # Absent
                                => getItem(localStorage', k) = getItem(localStorage, k)
       /\ ClearAll
          => \A k \in Keys : getItem(removeItems(localStorage), k) # Absent
                                => getItem(localStorage', k) = getItem(removeItems(localStorage), k)]_vars

C11_Witness ==
    /\ initialized /\ useLocalStorage
    /\ getFromLocalStorage(localStorage, "breaks") = <<Rec(1, "a")>>
    /\ getItem(localStorage, "faculty") = Some(JSONstringify(<<>>))
    /\ getItem(localStorage, "subjects") = Some(JSONstringify(<<>>))

\* C12: init() never raises, and whatever the gateway does every init()
\* completes: from some point on the mode is committed and no call is inside
\* init().
C12_InitAlwaysCompletes ==
    /\ [](last.op = "init" => last.out = "returned")
    /\ <>[](initialized /\ InInit = {})

C12_Witness == initialized /\ InInit = {} /\ last.op = "init" /\ last.out = "returned"

\* C13: the wait for the gateway object never polls more than maxAttempts (50)
\* times, and if the object never appears the mode is committed LOCAL without
\* a health probe.
C13_AbsentGatewayFailsOpen ==
    /\ [](\A c \in calls : c.pc = "waitClient" => c.a < maxAttempts)
    /\ ([]~apiClient.present) => <>[](initialized /\ useLocalStorage /\ probes = 0)

C13_Witness == ~apiClient.present /\ initialized /\ useLocalStorage /\ probes = 0 /\ InInit = {}

\* C14: an init() whose readiness wait ran to its ceiling (2 * maxAttempts
\* polls) with the gateway still not ready commits LOCAL.
C14_CeilingResolvesLocal ==
    [][\A c \in calls, o \in ProbeOutcomes :
          (ProbeResult(c, o) /\ c.a = 2 * maxAttempts /\ ~apiClient.initialized)
              => useLocalStorage']_vars

\* The collection persisted under a key, as a consumer would decode it.
Stored(store, k) == IF store[k] = <<>> THEN <<>> ELSE store[k][1].json

\* Every call in flight after the step was in flight before it.
NoNewCall ==
    \A c \in calls' : \E b \in calls : b.op = c.op /\ b.e = c.e /\ b.arg = c.arg /\ b.pc = c.pc

\* C15: in LOCAL mode an add returns, without failing, a record made of the
\* supplied data and an identifier synthesized from the clock, and the stored
\* collection afterwards is the one before with that record appended; no
\* other key changes and no call is issued.
C15_LocalAddAppends ==
    [][\A e \in Remote, d \in Data, dt \in Elapsed :
          (StartAdd(e, d, dt) /\ useLocalStorage)
              => /\ Completed /\ last'.out = "returned" /\ last'.gw = "none"
                 /\ Len(last'.val) = 1
                 /\ last'.val[1].d = d
                 /\ last'.val[1].id = now' /\ now' >= 1
                 /\ Stored(localStorage', e) = Append(Stored(localStorage, e), last'.val[1])
                 /\ \A k \in Keys \ {e} : localStorage'[k] = localStorage[k]
                 /\ NoNewCall]_vars

C15_Witness ==
    /\ useLocalStorage /\ last.op = "add" /\ last.e = "faculty" /\ last.gw = "none"
    /\ Stored(localStorage, "faculty") = <<last.val[1]>>

\* C16: in LOCAL mode every accessor and mutator of faculty, rooms, subjects,
\* leave requests and the timetable completes without a gateway request, and a
\* get returns exactly what the store holds for the entity (the empty list, or
\* null for the timetable, when the key is absent) and writes nothing.
C16_LocalModeStaysLocal ==
    [][(impl = "StorageManager" /\ useLocalStorage /\ ops' # ops)
          => /\ Completed /\ last'.gw = "none" /\ last'.out = "returned"
             /\ NoNewCall
             /\ server' = server
             /\ last'.op = "get"
                   => (last'.val = Stored(localStorage, last'.e) /\ localStorage' = localStorage)
             /\ last'.op = "getTimetable"
                   => (last'.val = (IF localStorage["timetable"] = <<>> THEN <<>>
                                    ELSE <<localStorage["timetable"][1].json>>)
                       /\ localStorage' = localStorage)]_vars

C16_Witness ==
    useLocalStorage /\ last.op = "get" /\ last.gw = "none" /\ last.val = <<Rec(1, "b")>>

\* C17: in LOCAL mode updateLeaveRequest(id, updates) returns null and leaves
\* the store alone when no stored request has the identifier; otherwise it
\* returns the first such request merged with the updates and changes that
\* record only.  It never raises.
C17_LocalUpdate ==
    [][\A id \in InputIds, st \in Statuses :
          (StartUpdate(id, st) /\ useLocalStorage)
              => LET old == Stored(localStorage, "leaveRequests")
                     new == Stored(localStorage', "leaveRequests")
                     idx == {i \in 1..Len(old) : old[i].id = id} IN
                 /\ Completed /\ last'.out = "returned" /\ last'.gw = "none"
                 /\ idx = {} => (last'.val = <<>> /\ localStorage' = localStorage)
                 /\ idx # {} =>
                       \E i \in idx :
                          /\ \A j \in idx : i <= j
                          /\ Len(new) = Len(old)
                          /\ \A j \in 1..Len(old) : j # i => new[j] = old[j]
                          /\ new[i] = [old[i] EXCEPT !.status = st]
                          /\ last'.val = <<new[i]>>]_vars

C17_Witness ==
    /\ useLocalStorage /\ last.op = "update" /\ last.gw = "none" /\ last.val # <<>>
    /\ last.val[1].status \in Statuses

\* The effect of remove(id) on the collection under key k.
Removed(k, id) ==
    /\ Completed /\ last'.out = "returned" /\ last'.gw = "none"
    /\ Stored(localStorage', k) = SelectSeq(Stored(localStorage, k), LAMBDA r : r.id # id)
    /\ id \notin Ids(Stored(localStorage, k)) => Stored(localStorage', k) = Stored(localStorage, k)

\* C18: in LOCAL mode remove(id), and removeBreak / removePractical in every
\* mode, do not raise and keep exactly the records whose identifier is not id,
\* in their order; with an identifier that is not stored the collection is
\* unchanged.
C18_LocalRemove ==
    [][/\ \A e \in Remote, id \in InputIds :
             (StartRemove(e, id) /\ useLocalStorage) => Removed(e, id)
       /\ \A k \in LocalOnly, id \in InputIds :
             LocalOnlyOp(k, "remove", id, "a", 0) => Removed(k, id)]_vars

C18_Witness ==
    /\ useLocalStorage /\ last.op = "remove" /\ last.gw = "none" /\ last.e = "subjects"
    /\ server = FilledServer /\ Stored(localStorage, "subjects") = <<>>

PassThrough == {"generateTimetable", "publishTimetable"}

C20_OneFailureShape ==
    [][\A c \in calls, w \in Wires :
          (ApiResult(c, w) /\ c.op # "getTimetable")
              => LET good == w.settled /\ w.parses /\ w.ok /\ w.success IN
                 /\ Completed
                 /\ good <=> last'.out = "returned"
                 /\ (good /\ w.data) => last'.val = apiPayload(c.op)
                 /\ ~good => /\ last'.out = "raised"
                             /\ Len(last'.val) = 1
                             /\ last'.val[1].message \in {"Failed to fetch", "Unexpected token",
                                                  "HTTP error! status", "API request failed",
                                                  "not found"}]_vars

C20_Witness ==
    /\ last.op = "getFaculty" /\ last.gw = "fail" /\ last.out = "raised"
    /\ last.val = <<Error("API request failed")>>

---------------------------------------------------------------------------
\* The calls suspended on a polling timer of waitForAPIClient.
Polling == {c \in calls : c.pc \in {"waitClient", "waitReady"}}

\* C22: the readiness wait terminates: whatever the gateway does, a call of
\* waitForAPIClient has made at most 2 * maxAttempts polling waits, counted
\* over its presence loop and its readiness loop together, and every call
\* that is polling stops polling (it returns to init, or it throws): from
\* some point on no call is waiting on a polling timer.
C22_WaitTerminates ==
    /\ [](\A c \in calls : c.pc \in {"waitClient", "waitReady", "probe"} => c.a <= 2 * maxAttempts)
    /\ [](\A c \in Polling : c.a < 2 * maxAttempts)
    /\ <>[](Polling = {})

C22_Witness == \E c \in calls : c.pc = "probe" /\ c.a = 2 * maxAttempts

---------------------------------------------------------------------------
\* C23: identifiers synthesized by LOCAL-mode adds increase in the order of
\* the adds and are never shared within a collection: an add that follows
\* another LOCAL add on the same collection gets a larger identifier, one no
\* record of the collection holds yet, however little time passed between
\* the two.
C23_LocalIdsIncrease ==
    [][/\ \A e \in Remote, d \in Data, dt \in Elapsed :
             (StartAdd(e, d, dt) /\ useLocalStorage
                 /\ last.op = "add" /\ last.e = e /\ last.gw = "none")
                => /\ last'.val[1].id > last.val[1].id
                   /\ last'.val[1].id \notin Ids(getFromLocalStorage(localStorage, e))
       /\ \A k \in LocalOnly, d \in Data, dt \in Elapsed :
             (LocalOnlyOp(k, "add", 1, d, dt) /\ last.op = "add" /\ last.e = k)
                => /\ last'.val[1].id > last.val[1].id
                   /\ last'.val[1].id \notin Ids(getFromLocalStorage(localStorage, k))]_vars

---------------------------------------------------------------------------
\* C24: in the adapter, when a get and an add on the same entity (issued one
\* after the other or while the other is still awaiting the gateway) have
\* both been answered with success by the gateway, the get has returned the
\* collection as it was before the write or as it is after it, and once the
\* second of the two completes the cache of that entity contains the added
\* record.
C24_ConcurrentAddAndGet ==
    [][\A c \in calls, resp \in Responses :
          (/\ AdapterGetResult(c, resp) \/ AdapterAddResult(c, resp)
           /\ calls' = {}
           /\ last.e = c.e /\ {last.op, c.op} = {"get", "add"}
           /\ last.gw = "ok" /\ last'.gw = "ok")
             => LET post == server'[c.e]
                    pre == SubSeq(post, 1, Len(post) - 1)
                    got == IF c.op = "get" THEN last'.val ELSE last.val IN
                /\ got \in {pre, post}
                /\ \E i \in 1..Len(cache'[c.e]) : cache'[c.e][i] = post[Len(post)]]_vars

---------------------------------------------------------------------------
\* A timetable object that has a cell for every day and every period.
Total(timetable) ==
    \A day \in days : /\ day \in DOMAIN timetable
                      /\ \A period \in periods : period \in DOMAIN timetable[day]

\* C21: every timetable that loadTimetable, generateTimetable,
\* selectTimetableOption, handleLeaveApproval or importTimetable installs has
\* exactly one entry, a slot or null, for each of the 5 x 6 pairs of day and
\* period; so do the default grid and every per-faculty slice of the held
\* timetable.
C21_GridIsTotal ==
    /\ [][tm'.timetable # tm.timetable => Total(tm'.timetable)]_vars
    /\ [](Total(getDefaultTimetable) /\ \A f \in Data : Total(getFacultyTimetable(tm.timetable, f)))

---------------------------------------------------------------------------
\* C25: publishTimetable sends its publish request only while a timetable id
\* is held, and an id is only ever taken from the answer to a successful
\* generateTimetable; settings.published and settings.lastPublished are set
\* when the publish request has succeeded, and are left as they were when
\* the id is missing or the request failed.
C25_PublishNeedsGeneratedId ==
    [][/\ \A c \in calls' \ calls : c.op = "publish" => tm.currentTimetableId # 0
       /\ tm'.currentTimetableId # tm.currentTimetableId
             => \E c \in calls, resp \in Responses :
                   GenerateResult(c, resp) /\ makeRequest(resp, <<generateResponse>>).ok
       /\ PublishTimetable => tm' = tm
       /\ \A c \in calls, w \in Wires :
             PublishResult(c, w)
                => IF request(w, apiPayload("publishTimetable")).ok
                   THEN tm' = [tm EXCEPT !.published = TRUE, !.lastPublished = Some(now)]
                   ELSE tm' = tm]_vars

C25_Witness ==
    /\ last.op = "publish" /\ last.gw = "ok"
    /\ tm.published /\ tm.currentTimetableId = 1 /\ tm.timetable = optionGrid(1)

---------------------------------------------------------------------------
\* A generated option is held as a draft.
Draft ==
    /\ ~tm.published
    /\ tm.currentTimetableId # 0
    /\ \E i \in 1..Len(tm.availableTimetables) : tm.timetable = tm.availableTimetables[i].timetable

\* C26: between a successful generateTimetable and the next successful
\* publishTimetable the timetable stays a draft and the generated grid stays
\* on show: a loadTimetable that settles while a generated option is held as
\* a draft (periodic refresh, login, dashboards) leaves it a draft.
C26_DraftSurvivesLoad ==
    [][\A c \in calls, w \in Wires, wrapped \in BOOLEAN :
          (LoadResult(c, w, wrapped) /\ Draft) => Draft']_vars

---------------------------------------------------------------------------
\* C27: auto-rescheduling is requested only by handleApprove and only once
\* the update of the request's status to 'approved' has succeeded; a failed
\* update and handleReject end without it; and an auto-reschedule request
\* that failed leaves the held timetable and its published flag as they were.
C27_RescheduleAfterApproval ==
    [][/\ \A c \in calls, w \in Wires :
             LeaveUpdateResult(c, w)
                => IF c.op = "approve" /\ c.arg.d = "approved" /\ request(w, <<>>).ok
                   THEN calls' = (calls \ {c}) \cup {[c EXCEPT !.pc = "reschedule"]}
                   ELSE calls' = calls \ {c}
       /\ \A d \in calls' \ calls :
             d.pc = "reschedule" => \E c \in calls, w \in Wires : LeaveUpdateResult(c, w)
       /\ \A c \in calls, w \in Wires :
             (RescheduleResult(c, w) /\ ~request(w, <<optionGrid(2)>>).ok)
                => /\ tm'.timetable = tm.timetable
                   /\ tm'.published = tm.published]_vars

C27_Witness ==
    /\ last.op = "approve" /\ last.gw = "fail"
    /\ \E i \in 1..Len(server["leaveRequests"]) : server["leaveRequests"][i].status = "approved"

\* C28: once init() has run, isAuthenticated is true exactly when currentUser
\* is non-null and the 'currentUser' key is present exactly when a user is
\* authenticated, whatever logins, logouts and faculty updates follow; and a
\* login that raises leaves currentUser, isAuthenticated and the key as they
\* were.
C28_AuthConsistent ==
    /\ [](auth.initialized =>
            /\ auth.isAuthenticated <=> auth.currentUser # Null
            /\ getItem(localStorage, "currentUser") # Absent <=> auth.isAuthenticated)
    /\ [][(last' # last /\ last'.op = "login" /\ last'.out = "raised")
            => /\ auth' = auth
               /\ getItem(localStorage', "currentUser") = getItem(localStorage, "currentUser")]_vars

C30_NoDuplicates ==
    \A e \in Managed : \A i, j \in 1..Len(mgr[e]) :
        (i < j /\ "name" \in DOMAIN mgr[e][i] /\ "name" \in DOMAIN mgr[e][j]) =>
            IF e = "rooms" THEN toLowerCase(mgr[e][i].name) # toLowerCase(mgr[e][j].name)
            ELSE mgr[e][i].name # mgr[e][j].name /\ mgr[e][i].key # mgr[e][j].key

====
